---- MODULE Spec2Model ----
(***************************************************************************)
(* Model of the closing-schedule calculator                                *)
(* (backend/closing_schedule_calculator.py) and of the task assignment     *)
(* engine that consumes it (backend/engine.py).                            *)
(*                                                                         *)
(* Dates are day numbers; day 0 is a Monday, so that weekday(d) = d % 7    *)
(* agrees with Python's date.weekday() (Monday = 0 ... Sunday = 6).        *)
(***************************************************************************)
EXTENDS Integers, Sequences, FiniteSets, TLC

(***************************************************************************)
(* Bounds of the model.                                                    *)
(***************************************************************************)
\* longest semester (number of Fridays) handed to the calculator on its own
MaxWeeks == 11
\* largest number of X-task weeks of the calculator's worker
MaxReq == 2
\* largest stored closing_interval
MaxInterval == 4
\* largest relief_max_per_semester
MaxRelief == 1
\* last end date of the engine's ranges (day 13: the Sunday of the second week)
LastDay == 13

(***************************************************************************)
(* Program constants.                                                      *)
(***************************************************************************)
\* Friday, as date.weekday() numbers it
FRIDAY == 4
\* the 26-week semester of test_calculator_cases.main
ExampleWeeks == 26
\* the first Friday of the calculator's semester (day 4 of week 0)
FirstFriday == 4
\* DecisionConfig.weekly_capacity, as the class declares it
DefaultCapacity == 2

VARIABLES
    workers,          \* worker id -> EnhancedWorker fields
    allow_single_relief_min1,  \* ClosingScheduleCalculator.allow_single_relief_min1
    relief_max_per_semester,   \* ClosingScheduleCalculator.relief_max_per_semester
    semester_weeks,   \* the list of Fridays handed to the calculator
    calc_results,     \* worker id -> dict returned by calculate_worker_closing_schedule
    pc,               \* position of the caller
    start_date,       \* assign_tasks_for_range: first date of the range
    end_date,         \* assign_tasks_for_range: last date of the range
    tasks_by_date,    \* date -> list of required task names
    assignments,      \* date -> list of <<task, worker id>>
    logs,             \* the run's log lines, in order
    assignment_errors,  \* SchedulingEngineV2.assignment_errors
    date_cursor,      \* the date the walk has reached
    task_scarcity,    \* task -> denominator of its scarcity
    worker_scarcity_index,  \* worker id -> <<numerator, denominator>>
    weekly_capacity,  \* run_demo: DecisionConfig.weekly_capacity
    week_results      \* run_demo: Friday -> WeekDecisionResult

calcVars == <<workers, allow_single_relief_min1, relief_max_per_semester,
              semester_weeks, calc_results, pc>>

engineVars == <<start_date, end_date, tasks_by_date, assignments, logs,
                assignment_errors, date_cursor, task_scarcity, worker_scarcity_index>>

demoVars == <<weekly_capacity, week_results>>

vars == <<calcVars, engineVars, demoVars>>

(***************************************************************************)
(* Sequences and sets of integers.                                         *)
(***************************************************************************)
Max2(a, b) == IF a >= b THEN a ELSE b

SetMin(S) == CHOOSE x \in S : \A y \in S : x <= y

SetMax(S) == CHOOSE x \in S : \A y \in S : x >= y

Range(s) == {s[i] : i \in 1..Len(s)}

\* sorted(list(dict.fromkeys(xs))) for integers: the ascending list of a set
RECURSIVE SortedSeq(_)
SortedSeq(S) ==
    IF S = {} THEN <<>>
    ELSE LET m == SetMin(S) IN <<m>> \o SortedSeq(S \ {m})

\* StepWeeks with the loop test w < to
RECURSIVE StepWeeksStrict(_, _, _)
StepWeeksStrict(from, to, n) ==
    IF from >= to THEN <<>>
    ELSE <<from>> \o StepWeeksStrict(from + n, to, n)

\* w = from; while w <= to: picks.append(w); w += n
RECURSIVE StepWeeks(_, _, _)
StepWeeks(from, to, n) ==
    IF from > to THEN <<>>
    ELSE <<from>> \o StepWeeks(from + n, to, n)

\* the key under which a date is stored in worker.x_tasks: strftime('%d/%m/%Y')
strftime(d) == <<"dmy", d>>

(***************************************************************************)
(* ClosingScheduleCalculator                                               *)
(***************************************************************************)
\* interval = max(2, int(worker.closing_interval) if worker.closing_interval else 2)
Interval(closing_interval) ==
    Max2(2, IF closing_interval # 0 THEN closing_interval ELSE 2)

\* _get_x_task_weeks that counts only the weeks whose entry is "Rituk"
get_x_task_weeks_rituk_only(worker, weeks) ==
    LET hit == {i \in 1..Len(weeks) :
                   /\ strftime(weeks[i]) \in DOMAIN worker.x_tasks
                   /\ worker.x_tasks[strftime(weeks[i])] = "Rituk"}
    IN  [k \in 1..Cardinality(hit) |-> SortedSeq(hit)[k] - 1]

\* _get_x_task_weeks that also counts the weeks the worker has closed
get_x_task_weeks_with_history(worker, weeks) ==
    LET hit == {i \in 1..Len(weeks) :
                   \/ strftime(weeks[i]) \in DOMAIN worker.x_tasks
                   \/ weeks[i] \in {worker.closing_history[k] : k \in 1..Len(worker.closing_history)}}
    IN  [k \in 1..Cardinality(hit) |-> SortedSeq(hit)[k] - 1]

\* _get_x_task_weeks: 0-based indices of the weeks whose date string is a key
\* of worker.x_tasks (whatever the value stored under it)
get_x_task_weeks(worker, weeks) ==
    LET hit == {i \in 1..Len(weeks) : strftime(weeks[i]) \in DOMAIN worker.x_tasks}
    IN  [k \in 1..Cardinality(hit) |-> SortedSeq(hit)[k] - 1]

\* MiddlePicks that fills a gap up to the week before the next required week
RECURSIVE MiddlePicksClose(_, _, _)
MiddlePicksClose(req, i, n) ==
    IF i >= Len(req) THEN <<>>
    ELSE StepWeeks(req[i] + n, req[i + 1] - 1, n) \o MiddlePicksClose(req, i + 1, n)

\* MiddlePicks that keeps n + 1 weeks before the next required week
RECURSIVE MiddlePicksShort(_, _, _)
MiddlePicksShort(req, i, n) ==
    IF i >= Len(req) THEN <<>>
    ELSE StepWeeks(req[i] + n, req[i + 1] - n - 1, n) \o MiddlePicksShort(req, i + 1, n)

\* the picks of the middle gaps req[i] -> req[i+1], in order
RECURSIVE MiddlePicks(_, _, _)
MiddlePicks(req, i, n) ==
    IF i >= Len(req) THEN <<>>
    ELSE StepWeeks(req[i] + n, req[i + 1] - n, n) \o MiddlePicks(req, i + 1, n)

\* the log lines of the middle gaps
RECURSIVE MiddleLog(_, _, _)
MiddleLog(req, i, n) ==
    IF i >= Len(req) THEN <<>>
    ELSE <<[kind |-> IF req[i] + n <= req[i + 1] - n THEN "Gap" ELSE "GapNone",
            a |-> req[i], b |-> req[i + 1], week |-> 0]>>
         \o MiddleLog(req, i + 1, n)

\* _select_optimal_weeks_min_gap: [picks, log]
select_optimal_weeks_min_gap(total_weeks, required_weeks_1_based, interval_weeks) ==
    LET n == Max2(2, interval_weeks)
        req == SortedSeq({w \in Range(required_weeks_1_based) : 1 <= w /\ w <= total_weeks})
    IN  IF req = <<>>
        THEN [picks |-> StepWeeks(1, total_weeks, n),
              log |-> <<[kind |-> "NoRequired", a |-> 0, b |-> 0, week |-> 0]>>]
        ELSE LET first == req[1]
                 last == req[Len(req)]
                 startPicks == IF first - n >= 1 THEN StepWeeks(1, first - n, n) ELSE <<>>
                 raw == startPicks \o MiddlePicks(req, 1, n)
                            \o StepWeeks(last + n, total_weeks, n)
             IN  [picks |-> SortedSeq({p \in Range(raw) :
                                 p \notin Range(req) /\ 1 <= p /\ p <= total_weeks}),
                  log |-> <<[kind |-> IF first - n >= 1 THEN "StartGap" ELSE "StartGapNone",
                             a |-> 0, b |-> first, week |-> 0]>>
                          \o MiddleLog(req, 1, n)
                          \o <<[kind |-> "EndGap", a |-> last, b |-> 0, week |-> 0]>>]

\* ReliefScan that walks the pairs of neighbours from the last to the first
RECURSIVE ReliefScanFromEnd(_, _, _, _, _, _, _)
ReliefScanFromEnd(combined, req, n, total_weeks, cap, i, applied) ==
    IF i >= Len(combined) THEN <<>>
    ELSE LET a == combined[Len(combined) - i]
             b == combined[Len(combined) - i + 1]
         IN  IF b - a = 2 * n - 1 /\ 1 <= a + n /\ a + n <= total_weeks
                /\ a + n \notin Range(combined) /\ a + n \notin Range(req)
             THEN <<[kind |-> "Relief", a |-> a, b |-> b, week |-> a + n]>>
                  \o (IF applied + 1 >= cap THEN <<>>
                      ELSE ReliefScanFromEnd(combined, req, n, total_weeks, cap, i + 1, applied + 1))
             ELSE ReliefScanFromEnd(combined, req, n, total_weeks, cap, i + 1, applied)

\* ReliefScan that places the relief week n weeks before the later week
RECURSIVE ReliefScanBeforeNext(_, _, _, _, _, _, _)
ReliefScanBeforeNext(combined, req, n, total_weeks, cap, i, applied) ==
    IF i >= Len(combined) THEN <<>>
    ELSE LET a == combined[i]
             b == combined[i + 1]
         IN  IF b - a = 2 * n - 1 /\ 1 <= b - n /\ b - n <= total_weeks
                /\ b - n \notin Range(combined) /\ b - n \notin Range(req)
             THEN <<[kind |-> "Relief", a |-> a, b |-> b, week |-> b - n]>>
                  \o (IF applied + 1 >= cap THEN <<>>
                      ELSE ReliefScanBeforeNext(combined, req, n, total_weeks, cap, i + 1, applied + 1))
             ELSE ReliefScanBeforeNext(combined, req, n, total_weeks, cap, i + 1, applied)

\* ReliefScan without the break at the cap
RECURSIVE ReliefScanNoCap(_, _, _, _, _, _, _)
ReliefScanNoCap(combined, req, n, total_weeks, cap, i, applied) ==
    IF i >= Len(combined) THEN <<>>
    ELSE LET a == combined[i]
             b == combined[i + 1]
         IN  IF b - a = 2 * n - 1 /\ 1 <= a + n /\ a + n <= total_weeks
                /\ a + n \notin Range(combined) /\ a + n \notin Range(req)
             THEN <<[kind |-> "Relief", a |-> a, b |-> b, week |-> a + n]>>
                  \o ReliefScanNoCap(combined, req, n, total_weeks, cap, i + 1, applied + 1)
             ELSE ReliefScanNoCap(combined, req, n, total_weeks, cap, i + 1, applied)

\* the relief loop of calculate_worker_closing_schedule, from index i of
\* `combined`: returns the relief weeks added, in scan order
RECURSIVE ReliefScan(_, _, _, _, _, _, _)
ReliefScan(combined, req, n, total_weeks, cap, i, applied) ==
    IF i >= Len(combined) THEN <<>>
    ELSE LET a == combined[i]
             b == combined[i + 1]
             relief_week == a + n
         IN  IF b - a = 2 * n - 1
                /\ 1 <= relief_week /\ relief_week <= total_weeks
                /\ relief_week \notin Range(combined)
                /\ relief_week \notin Range(req)
             THEN <<[kind |-> "Relief", a |-> a, b |-> b, week |-> relief_week]>>
                  \o (IF applied + 1 >= cap THEN <<>>
                      ELSE ReliefScan(combined, req, n, total_weeks, cap, i + 1, applied + 1))
             ELSE ReliefScan(combined, req, n, total_weeks, cap, i + 1, applied)

\* a relief pass that runs whatever the interval
relief_pass_any_interval(allow, required_weeks_1_based, interval, cap) ==
    allow /\ required_weeks_1_based # <<>> /\ cap > 0

\* the guard of the relief pass: the flag is on, a required week exists, the
\* interval is above 2 and the cap is positive
relief_pass_applies(allow, required_weeks_1_based, interval, cap) ==
    allow /\ required_weeks_1_based # <<>> /\ interval > 2 /\ cap > 0

\* every week of required + optimal mapped back to its date
combined_dates_of(weeks, optimal_weeks_1_based, required_weeks_1_based) ==
    LET all == SortedSeq(Range(optimal_weeks_1_based) \cup Range(required_weeks_1_based))
    IN  [k \in 1..Len(all) |-> weeks[all[k]]]

\* optimal_dates: the optimal weeks that are not required, mapped back to dates
optimal_dates_of(weeks, optimal_weeks_1_based, required_weeks_1_based) ==
    LET kept == SelectSeq(optimal_weeks_1_based, LAMBDA w : w \notin Range(required_weeks_1_based))
    IN  [k \in 1..Len(kept) |-> weeks[kept[k]]]

\* calculate_worker_closing_schedule(worker, semester_weeks) of a calculator
\* built with (allow, cap)
calculate_worker_closing_schedule(worker, weeks, allow, cap) ==
    IF weeks = <<>>
    THEN [required_dates |-> <<>>, optimal_dates |-> <<>>,
          final_weekends_home_owed |-> worker.weekends_home_owed,
          calculation_log |-> <<[kind |-> "NoWeeks", a |-> 0, b |-> 0, week |-> 0]>>,
          user_alerts |-> <<>>]
    ELSE
    LET interval == Interval(worker.closing_interval)
        zero == get_x_task_weeks(worker, weeks)
        required_weeks_1_based == SortedSeq({zero[k] + 1 : k \in 1..Len(zero)})
        total_weeks == Len(weeks)
        sel == select_optimal_weeks_min_gap(total_weeks, required_weeks_1_based, interval)
        relief == IF relief_pass_applies(allow, required_weeks_1_based, interval, cap)
                  THEN ReliefScan(SortedSeq(Range(required_weeks_1_based) \cup Range(sel.picks)),
                                  required_weeks_1_based, interval, total_weeks, cap, 1, 0)
                  ELSE <<>>
        optimal_weeks_1_based ==
            IF relief # <<>>
            THEN SortedSeq(Range(sel.picks) \cup {relief[k].week : k \in 1..Len(relief)})
            ELSE sel.picks
    IN  [required_dates |-> [k \in 1..Len(required_weeks_1_based) |->
                                weeks[required_weeks_1_based[k]]],
         optimal_dates |-> optimal_dates_of(weeks, optimal_weeks_1_based, required_weeks_1_based),
         final_weekends_home_owed |-> worker.weekends_home_owed,
         calculation_log |->
             <<[kind |-> "MinSpacing", a |-> interval, b |-> 0, week |-> 0],
               [kind |-> "Found", a |-> Len(required_weeks_1_based), b |-> 0, week |-> 0]>>
             \o sel.log \o relief,
         user_alerts |-> <<>>]


\* update_all_worker_schedules that leaves a worker with stored dates alone
update_all_worker_schedules_once(ws, weeks, allow, cap) ==
    [id \in DOMAIN ws |->
        LET result == calculate_worker_closing_schedule(ws[id], weeks, allow, cap)
        IN  IF ws[id].required_closing_dates # <<>> \/ ws[id].optimal_closing_dates # <<>>
            THEN ws[id]
            ELSE [ws[id] EXCEPT !.required_closing_dates = result.required_dates,
                                !.optimal_closing_dates = result.optimal_dates,
                                !.weekends_home_owed = result.final_weekends_home_owed,
                                !.home_weeks_owed = result.final_weekends_home_owed]]

\* update_all_worker_schedules: every worker's stored schedule is replaced by
\* the calculator's result for it
update_all_worker_schedules(ws, weeks, allow, cap) ==
    [id \in DOMAIN ws |->
        LET result == calculate_worker_closing_schedule(ws[id], weeks, allow, cap)
        IN  [ws[id] EXCEPT !.required_closing_dates = result.required_dates,
                           !.optimal_closing_dates = result.optimal_dates,
                           !.weekends_home_owed = result.final_weekends_home_owed,
                           !.home_weeks_owed = result.final_weekends_home_owed]]

(***************************************************************************)
(* EnhancedWorker methods the engine calls                                 *)
(***************************************************************************)
\* weekday(): Monday = 0 ... Sunday = 6
weekday(d) == d % 7

\* has_x_task_on_date: a non-empty, non-placeholder entry on the date
has_x_task_on_date(w, d) ==
    /\ strftime(d) \in DOMAIN w.x_tasks
    /\ w.x_tasks[strftime(d)] \notin {"", "-"}

\* has_specific_x_task(d, name)
has_specific_x_task(w, d, name) ==
    /\ strftime(d) \in DOMAIN w.x_tasks
    /\ w.x_tasks[strftime(d)] = name

\* can_participate_in_closing: workers with closing_interval 0 never close
can_participate_in_closing(w) == w.closing_interval > 0

\* assign_closing(friday): the Friday joins closing_history
assign_closing(w, friday) ==
    IF friday \in Range(w.closing_history) THEN w
    ELSE [w EXCEPT !.closing_history = Append(@, friday)]

\* whole weeks from the worker's last close on or before d; a worker without
\* one counts as having closed one interval before d
weeks_since_last_close(w, d) ==
    LET prior == {h \in Range(w.closing_history) : h <= d}
    IN  IF prior = {} THEN w.closing_interval
        ELSE (d - SetMax(prior)) \div 7

\* get_weeks_overdue(d)
get_weeks_overdue(w, d) ==
    Max2(0, weeks_since_last_close(w, d) - w.closing_interval)

\* get_weeks_until_due_to_close(d)
get_weeks_until_due_to_close(w, d) ==
    Max2(0, w.closing_interval - weeks_since_last_close(w, d))

\* check_multiple_y_tasks_per_week(week_start): the Y-tasks the worker's own
\* calendar holds in the seven days from week_start
check_multiple_y_tasks_per_week(w, week_start) ==
    Cardinality({d \in w.y_tasks : week_start <= d /\ d <= week_start + 6})

\* update_score_after_assignment("closing", friday): the assignment-score hook
\* nudges the score upwards
update_score_after_assignment(w, friday) ==
    [w EXCEPT !.score = @ + 1]

(***************************************************************************)
(* Task definitions (tasks.json) and scarcity                              *)
(***************************************************************************)
\* the Y-task names of tasks.json, in file order
Y_TASK_TYPES == <<"Supervisor", "Driver", "Kitchen", "Special">>

TaskNames == Range(Y_TASK_TYPES)

\* Y_TASK_DEFS: requiresQualification of each task
Y_TASK_DEFS == [t \in TaskNames |-> t # "Kitchen"]

\* Y_TASK_AUTO_ASSIGN: autoAssign of each task
Y_TASK_AUTO_ASSIGN == [t \in TaskNames |-> t # "Special"]

\* Y_NAME_TO_ID: the id of each task name
Y_NAME_TO_ID == [t \in TaskNames |-> CHOOSE i \in 1..Len(Y_TASK_TYPES) : Y_TASK_TYPES[i] = t]

\* qualified by id or by name (weekend: requiresQualification is not read)
worker_qualifies_for(task_name, w) ==
    \/ Y_NAME_TO_ID[task_name] \in w.qualification_ids
    \/ task_name \in w.qualifications

\* sum(w.y_task_counts.values())
RECURSIVE SumOver(_, _)
SumOver(f, D) ==
    IF D = {} THEN 0
    ELSE LET x == CHOOSE y \in D : TRUE IN f[x] + SumOver(f, D \ {x})

total_y(w) == SumOver(w.y_task_counts, DOMAIN w.y_task_counts)

\* compute_qualification_scarcity: availability[t]; scarcity[t] is
\* 1 / max(1, availability[t]), kept as its denominator
compute_qualification_scarcity(ws) ==
    [t \in TaskNames |->
        Max2(1, Cardinality({id \in DOMAIN ws :
            (~Y_TASK_DEFS[t]) \/ worker_qualifies_for(t, ws[id])}))]

\* the product of the denominators, a common denominator of all scarcities
RECURSIVE ProdOver(_, _)
ProdOver(f, D) ==
    IF D = {} THEN 1
    ELSE LET x == CHOOSE y \in D : TRUE IN f[x] * ProdOver(f, D \ {x})

\* compute_worker_scarcity_index: the average scarcity of the worker's tasks,
\* as a fraction <<numerator, denominator>>; 0 without any task
compute_worker_scarcity_index(w, denom) ==
    LET mine == {t \in TaskNames : (~Y_TASK_DEFS[t]) \/ worker_qualifies_for(t, w)}
        P == ProdOver(denom, TaskNames)
    IN  IF mine = {} THEN <<0, 1>>
        ELSE <<SumOver([t \in TaskNames |-> P \div denom[t]], mine), P * Cardinality(mine)>>

\* a local variable: v is computed once, then body reads its value
ValueOf(v, body(_)) == CHOOSE r \in {body(x) : x \in {v}} : TRUE

\* lexicographic < on tuples of integers of equal length
RECURSIVE LexLess(_, _)
LexLess(a, b) ==
    IF a = <<>> THEN FALSE
    ELSE IF a[1] # b[1] THEN a[1] < b[1]
    ELSE LexLess(Tail(a), Tail(b))

\* list.sort(key=...) / sorted(..., key=...): stable insertion; key[x] is the
\* tuple of integers the key function gives x
RECURSIVE InsertBy(_, _, _)
InsertBy(x, sorted, key) ==
    ValueOf(sorted, LAMBDA s :
        IF s = <<>> THEN <<x>>
        ELSE IF LexLess(key[x], key[s[1]]) THEN <<x>> \o s
        ELSE <<s[1]>> \o InsertBy(x, Tail(s), key))

RECURSIVE SortBy(_, _)
SortBy(list, key_function) ==
    ValueOf(list, LAMBDA s :
    ValueOf(key_function, LAMBDA key :
        IF s = <<>> THEN <<>>
        ELSE InsertBy(s[Len(s)], SortBy(SubSeq(s, 1, Len(s) - 1), key), key)))

(***************************************************************************)
(* Worker records                                                          *)
(***************************************************************************)
\* the X-task names a calendar may hold
XTaskNames == {"Rituk", "Guard"}

\* a worker as load_workers_from_json builds it, before any run
NewWorker(quals, interval, xt, history) ==
    [qualifications |-> quals,
     qualification_ids |-> {Y_NAME_TO_ID[t] : t \in quals},
     y_tasks |-> {},
     closing_interval |-> interval,
     closing_history |-> history,
     required_closing_dates |-> <<>>,
     optimal_closing_dates |-> <<>>,
     x_tasks |-> xt,
     y_task_counts |-> [t \in TaskNames |-> 0],
     score |-> 0,
     weekends_home_owed |-> 0,
     home_weeks_owed |-> 0]

\* x_tasks holding `name` on each of the dates D
XTasksOn(D, name) == [k \in {strftime(d) : d \in D} |-> name]

(***************************************************************************)
(* The calculator on its own: one worker, a semester of consecutive        *)
(* Fridays, every relief setting.                                          *)
(***************************************************************************)
\* generate_fridays: `weeks` consecutive Fridays
generate_fridays(weeks) == [i \in 1..weeks |-> FirstFriday + 7 * (i - 1)]

\* the sets of at most MaxReq weeks of a semester of tw weeks
WeekSets(tw) == {S \in SUBSET (1..tw) : Cardinality(S) <= MaxReq}

\* no engine run: the engine's variables stay empty
EngineIdle ==
    /\ start_date = 0 /\ end_date = 0 /\ date_cursor = 0
    /\ tasks_by_date = <<>> /\ assignments = <<>>
    /\ logs = <<>> /\ assignment_errors = <<>>
    /\ task_scarcity = <<>> /\ worker_scarcity_index = <<>>

\* no demo run: the demo's variables stay as declared
DemoIdle == weekly_capacity = DefaultCapacity /\ week_results = <<>>

CalcInit ==
    /\ pc = "ready"
    /\ EngineIdle
    /\ DemoIdle
    /\ allow_single_relief_min1 \in BOOLEAN
    /\ relief_max_per_semester \in 0..MaxRelief
    /\ calc_results = <<>>
    /\ \E tw \in 0..MaxWeeks, ci \in 0..MaxInterval, name \in XTaskNames :
         \E X \in WeekSets(tw) :
            /\ name = "Guard" \/ X # {}
            /\ semester_weeks = generate_fridays(tw)
            /\ workers = [id \in {1} |->
                 NewWorker({}, ci, XTasksOn({generate_fridays(tw)[w] : w \in X}, name), <<>>)]

\* case A of test_calculator_cases.main: interval 3, 26 weeks, no X-task
ExampleInit ==
    /\ pc = "ready"
    /\ EngineIdle
    /\ DemoIdle
    /\ allow_single_relief_min1 \in BOOLEAN
    /\ relief_max_per_semester \in 0..MaxRelief
    /\ calc_results = <<>>
    /\ semester_weeks = generate_fridays(ExampleWeeks)
    /\ workers = [id \in {1} |-> NewWorker({}, 3, XTasksOn({}, "Guard"), <<>>)]

\* case B of test_calculator_cases.main: interval 4, X-tasks in weeks 6 and 13,
\* in a semester of 13 to 26 weeks
ExampleInitB ==
    /\ pc = "ready"
    /\ EngineIdle
    /\ DemoIdle
    /\ allow_single_relief_min1 \in BOOLEAN
    /\ relief_max_per_semester \in 0..MaxRelief
    /\ calc_results = <<>>
    /\ \E tw \in 13..ExampleWeeks :
          /\ semester_weeks = generate_fridays(tw)
          /\ workers = [id \in {1} |->
                NewWorker({}, 4, XTasksOn({generate_fridays(tw)[w] : w \in {6, 13}}, "Guard"), <<>>)]

\* a call of calculate_worker_closing_schedule for each worker: the results
\* are returned, the workers are not touched
Calculate ==
    /\ pc = "ready"
    /\ calc_results' = [id \in DOMAIN workers |->
            calculate_worker_closing_schedule(workers[id], semester_weeks,
                allow_single_relief_min1, relief_max_per_semester)]
    /\ pc' = "calculated"
    /\ UNCHANGED <<workers, allow_single_relief_min1, relief_max_per_semester, semester_weeks>>
    /\ UNCHANGED engineVars
    /\ UNCHANGED demoVars

\* a call of update_all_worker_schedules(workers, semester_weeks)
UpdateSchedules ==
    /\ pc \in {"ready", "calculated"}
    /\ workers' = update_all_worker_schedules(workers, semester_weeks,
                      allow_single_relief_min1, relief_max_per_semester)
    /\ calc_results' = [id \in DOMAIN workers |->
            calculate_worker_closing_schedule(workers[id], semester_weeks,
                allow_single_relief_min1, relief_max_per_semester)]
    /\ pc' = "updated"
    /\ UNCHANGED <<allow_single_relief_min1, relief_max_per_semester, semester_weeks>>
    /\ UNCHANGED engineVars
    /\ UNCHANGED demoVars

CalcNext == Calculate \/ UpdateSchedules

SpecCalc == (CalcInit \/ ExampleInit \/ ExampleInitB) /\ [][CalcNext]_vars

(***************************************************************************)
(* Properties of the calculator                                            *)
(***************************************************************************)
\* to_weeks of test_calculator_cases: the 1-based week numbers of dates
to_weeks(dates, weeks) ==
    SortedSeq({i \in 1..Len(weeks) : weeks[i] \in Range(dates)})

CalcDone == pc \in {"calculated", "updated"}

\* no relief pass can run: the flag is off or the cap is 0
ReliefDisabled == ~allow_single_relief_min1 \/ relief_max_per_semester = 0

OptWeeks(id) == to_weeks(calc_results[id].optimal_dates, semester_weeks)

ReqWeeks(id) == to_weeks(calc_results[id].required_dates, semester_weeks)

\* the weeks of the semester on which the worker has an X-task entry
XWeeks(id) ==
    {i \in 1..Len(semester_weeks) :
        strftime(semester_weeks[i]) \in DOMAIN workers[id].x_tasks}

Dist(a, b) == IF a >= b THEN a - b ELSE b - a

\* the weeks an optional pick may take: not required, and n weeks or more
\* from every required week
FreeWeeks(id) ==
    LET n == Interval(workers[id].closing_interval)
    IN  {w \in 1..Len(semester_weeks) :
            w \notin XWeeks(id) /\ \A r \in XWeeks(id) : Dist(w, r) >= n}

\* the largest number of weeks of Free in w..tw that are pairwise n or more
\* apart, by exhaustive choice: week w is left out, or taken (and then the
\* next week taken is w + n or later)
RECURSIVE MaxSpaced(_, _, _, _)
MaxSpaced(w, tw, n, Free) ==
    IF w > tw THEN 0
    ELSE LET skip == MaxSpaced(w + 1, tw, n, Free)
         IN  IF w \in Free
             THEN Max2(skip, 1 + MaxSpaced(w + n, tw, n, Free))
             ELSE skip

\* C8: with relief disabled, the number of optimal weeks the calculator
\* returns is the largest size of a set of non-required weeks that are pairwise
\* at least n weeks apart and at least n weeks from every required week
C8_GreedyMaximal ==
    (CalcDone /\ ReliefDisabled) =>
        \A id \in DOMAIN calc_results :
            /\ Range(OptWeeks(id)) \subseteq FreeWeeks(id)
            /\ \A a, b \in Range(OptWeeks(id)) :
                   a # b => Dist(a, b) >= Interval(workers[id].closing_interval)
            /\ Len(OptWeeks(id)) =
                   MaxSpaced(1, Len(semester_weeks),
                             Interval(workers[id].closing_interval), FreeWeeks(id))

\* C8 witness: a result with required weeks at both ends of a middle gap that
\* holds two optimal picks, and picks before and after
C8_Witness ==
    /\ CalcDone /\ ReliefDisabled
    /\ Cardinality(XWeeks(1)) >= 2
    /\ \E a, b \in XWeeks(1) :
          /\ a < b
          /\ Cardinality({w \in Range(OptWeeks(1)) : a < w /\ w < b}) >= 2
    /\ \E w \in Range(OptWeeks(1)) : w < SetMin(XWeeks(1))
    /\ \E w \in Range(OptWeeks(1)) : w > SetMax(XWeeks(1))

\* the weeks of the segment rule of the specification
SegmentWeeks(id) ==
    LET n == Interval(workers[id].closing_interval)
        R == XWeeks(id)
        tw == Len(semester_weeks)
    IN  {w \in 1..tw :
           IF R = {} THEN (w - 1) % n = 0
           ELSE LET below == {r \in R : r < w}
                    above == {r \in R : r > w}
                IN  /\ w \notin R
                    /\ above # {} => w <= SetMin(above) - n
                    /\ IF below = {}
                       THEN (w - 1) % n = 0
                       ELSE w >= SetMax(below) + n /\ (w - SetMax(below)) % n = 0}

\* C9: with relief disabled the optimal weeks are exactly the weeks of the
\* segment rule; closing_interval 3 without X-tasks over 26 weeks gives
\* 1, 4, 7, 10, 13, 16, 19, 22, 25
C9_SegmentRule ==
    (CalcDone /\ ReliefDisabled) =>
        \A id \in DOMAIN calc_results :
            /\ OptWeeks(id) = SortedSeq(SegmentWeeks(id))
            /\ (Len(semester_weeks) = ExampleWeeks /\ workers[id].closing_interval = 3
                    /\ XWeeks(id) = {})
                => OptWeeks(id) = <<1, 4, 7, 10, 13, 16, 19, 22, 25>>

\* C9 witness: the 26-week example has been calculated
C9_Witness ==
    /\ CalcDone /\ ReliefDisabled
    /\ Len(semester_weeks) = ExampleWeeks
    /\ workers[1].closing_interval = 3
    /\ XWeeks(1) = {}
    /\ Len(OptWeeks(1)) = 9

\* the relief insertions the calculation log reports
ReliefEvents(id) ==
    SelectSeq(calc_results[id].calculation_log, LAMBDA e : e.kind = "Relief")

\* the greedy picks of the worker, before any relief
GreedyWeeks(id) ==
    select_optimal_weeks_min_gap(Len(semester_weeks), SortedSeq(XWeeks(id)),
                                 Interval(workers[id].closing_interval)).picks

\* the gaps of exactly 2n - 1 weeks between adjacent weeks of required + greedy
ReliefGaps(id) ==
    LET n == Interval(workers[id].closing_interval)
        C == XWeeks(id) \cup Range(GreedyWeeks(id))
    IN  {a \in C : a + 2 * n - 1 \in C /\ \A c \in C : ~(a < c /\ c < a + 2 * n - 1)}

\* C10: one call inserts at most relief_max_per_semester relief picks, and none
\* with the flag off or the cap at 0
C10_ReliefCap ==
    CalcDone =>
        \A id \in DOMAIN calc_results :
            /\ Len(ReliefEvents(id)) <= relief_max_per_semester
            /\ Cardinality(Range(OptWeeks(id)) \ Range(GreedyWeeks(id)))
                   <= relief_max_per_semester
            /\ ReliefDisabled =>
                   /\ ReliefEvents(id) = <<>>
                   /\ OptWeeks(id) = GreedyWeeks(id)

\* C10 witness: more gaps of 2n - 1 weeks than the cap allows, the cap reached
C10_Witness ==
    /\ CalcDone
    /\ relief_max_per_semester >= 1
    /\ Cardinality(ReliefGaps(1)) > relief_max_per_semester
    /\ Len(ReliefEvents(1)) = relief_max_per_semester
    /\ Cardinality(Range(OptWeeks(1)) \ Range(GreedyWeeks(1))) = relief_max_per_semester

\* relief can run: the flag is on and the cap is 1 or more
ReliefEnabled == allow_single_relief_min1 /\ relief_max_per_semester >= 1

\* required and optimal weeks of the result together, ascending
CombinedWeeks(id) == SortedSeq(Range(ReqWeeks(id)) \cup Range(OptWeeks(id)))

\* C11: for a worker whose closing_interval is 2 or less (or unset) no relief
\* pick is inserted, whatever the gaps and the relief settings: the log holds no
\* relief line and the optimal weeks are the greedy picks
C11_NoReliefAtTwo ==
    CalcDone =>
        \A id \in DOMAIN calc_results :
            workers[id].closing_interval <= 2 =>
                /\ ReliefEvents(id) = <<>>
                /\ OptWeeks(id) = GreedyWeeks(id)

\* C11 witness: interval 2, relief enabled, and a gap of 2n - 1 = 3 weeks
\* between neighbours of required + greedy
C11_Witness ==
    /\ CalcDone /\ ReliefEnabled
    /\ workers[1].closing_interval <= 2
    /\ XWeeks(1) # {}
    /\ ReliefGaps(1) # {}

\* C12: with relief enabled and a required week, the combined weeks before the
\* first required week b are exactly 1, 1 + n, 1 + 2n, ... up to b - n
C12_StartSegment ==
    (CalcDone /\ ReliefEnabled) =>
        \A id \in DOMAIN calc_results :
            XWeeks(id) # {} =>
                LET n == Interval(workers[id].closing_interval)
                    b == SetMin(XWeeks(id))
                IN  {w \in Range(CombinedWeeks(id)) : w < b} = Range(StepWeeks(1, b - n, n))

\* the example of the specification: interval 4, required weeks 6 and 13,
\* relief enabled with a cap of 1, 13 weeks or more
ReliefExample(id) ==
    /\ CalcDone
    /\ allow_single_relief_min1 /\ relief_max_per_semester = 1
    /\ workers[id].closing_interval = 4
    /\ XWeeks(id) = {6, 13}
    /\ Len(semester_weeks) >= 13

\* C13, as the specification states it: the example gives one relief pick, at
\* week 10, and the combined weeks 6, 10, 13
C13_ReliefExample ==
    \A id \in DOMAIN calc_results :
        ReliefExample(id) =>
            /\ Len(ReliefEvents(id)) = 1
            /\ ReliefEvents(id)[1].week = 10
            /\ CombinedWeeks(id) = <<6, 10, 13>>

\* C13: the example gives one relief pick, at week 10, and the combined weeks
\* 1, 6, 10, 13 followed by 17, 21, 25 as far as the semester reaches
C13_ReliefExampleFull ==
    \A id \in DOMAIN calc_results :
        ReliefExample(id) =>
            /\ Len(ReliefEvents(id)) = 1
            /\ ReliefEvents(id)[1].week = 10
            /\ Range(OptWeeks(id)) \ Range(GreedyWeeks(id)) = {10}
            /\ CombinedWeeks(id) =
                   <<1, 6, 10, 13>> \o StepWeeks(17, Len(semester_weeks), 4)

\* C13 witness: the example calculated over the 26 weeks of the test
C13_Witness ==
    /\ ReliefExample(1)
    /\ Len(semester_weeks) = ExampleWeeks
    /\ Len(CombinedWeeks(1)) = 7

\* C14: required_dates and optimal_dates of a result have no date in common
C14_Disjoint ==
    CalcDone =>
        \A id \in DOMAIN calc_results :
            Range(calc_results[id].required_dates)
                \cap Range(calc_results[id].optimal_dates) = {}

\* C14 witness: a result with required dates, optimal dates and a relief pick
C14_Witness ==
    /\ CalcDone
    /\ calc_results[1].required_dates # <<>>
    /\ calc_results[1].optimal_dates # <<>>
    /\ ReliefEvents(1) # <<>>

(***************************************************************************)
(* SchedulingEngineV2                                                      *)
(***************************************************************************)
\* the roster, in list order
Roster(ws) == SortedSeq(DOMAIN ws)

\* one line of the run's log
LogLine(kind, d, task, id) == [kind |-> kind, date |-> d, task |-> task, worker |-> id]

\* AssignmentError(task_type, date, reason, severity)
AssignmentError(task, d, reason, severity) ==
    [task_type |-> task, date |-> d, reason |-> reason, severity |-> severity]

\* sorted() of task names: their alphabetical rank
AlphaRank == [t \in TaskNames |->
    CASE t = "Driver" -> 1 [] t = "Kitchen" -> 2 [] t = "Special" -> 3 [] OTHER -> 4]

\* list(set(names)): the orders in which a set of names may be iterated
SetOrders(S) == {o \in [1..Cardinality(S) -> S] : Range(o) = S}

\* the list handed on without sorting
unsorted_names(order) == order

\* sorted(list(set(names))): the names in alphabetical order, whatever the
\* order the set was iterated in
sorted_names(order) == SortBy(order, [t \in TaskNames |-> <<AlphaRank[t]>>])

\* _prioritize_tasks_by_scarcity: most scarce first (smallest denominator),
\* equal tasks in list order
prioritize_tasks_by_scarcity(tasks, denom) ==
    SortBy(tasks, [t \in TaskNames |-> <<denom[t]>>])

\* the Fridays of [start, end], ascending
all_fridays_in_range(start, end) ==
    SortedSeq({d \in start..end : weekday(d) = FRIDAY})

\* the first week after start_after_date, whatever the prior closes
find_next_week_after(closing_history, interval_weeks, start_after_date, weeks) ==
    LET ok == {i \in 1..Len(weeks) : weeks[i] > start_after_date}
    IN  IF weeks = <<>> \/ ok = {} THEN <<>> ELSE <<weeks[SetMin(ok)]>>

\* find_next_optimal_closing_date: the first week after start_after_date that
\* is n weeks or more from every prior close, as <<d>>; <<>> for None
find_next_optimal_closing_date(closing_history, interval_weeks, start_after_date, weeks) ==
    LET n == Max2(2, IF interval_weeks # 0 THEN interval_weeks ELSE 2)
        ok == {i \in 1..Len(weeks) :
                  /\ weeks[i] > start_after_date
                  /\ \A p \in Range(closing_history) : Dist(weeks[i], p) \div 7 >= n}
    IN  IF weeks = <<>> \/ ok = {} THEN <<>> ELSE <<weeks[SetMin(ok)]>>

\* list.remove(x): the first occurrence goes
RemoveFirst(s, x) ==
    LET hit == {i \in 1..Len(s) : s[i] = x}
    IN  IF hit = {} THEN s
        ELSE SubSeq(s, 1, SetMin(hit) - 1) \o SubSeq(s, SetMin(hit) + 1, Len(s))

\* _update_missed_optimal_close: [w, logs]
update_missed_optimal_close(w, id, missed_friday, weeks, lg) ==
    IF ~can_participate_in_closing(w) \/ missed_friday \notin Range(w.optimal_closing_dates)
    THEN [w |-> w, logs |-> lg]
    ELSE LET removed == RemoveFirst(w.optimal_closing_dates, missed_friday)
             next_optimal == find_next_optimal_closing_date(
                                 w.closing_history, w.closing_interval,
                                 missed_friday + 1, weeks)
         IN  IF next_optimal # <<>> /\ next_optimal[1] \notin Range(removed)
             THEN [w |-> [w EXCEPT !.optimal_closing_dates =
                                SortedSeq(Range(removed) \cup {next_optimal[1]})],
                   logs |-> Append(lg, LogLine("Rescheduled", next_optimal[1], "", id))]
             ELSE [w |-> [w EXCEPT !.optimal_closing_dates = removed], logs |-> lg]

\* has_x_task_conflict: an X-task on any day of the weekend
has_x_task_conflict(w, thursday) ==
    \E day \in {thursday, thursday + 1, thursday + 2} : has_x_task_on_date(w, day)

\* has_non_rituk_x_on_friday
has_non_rituk_x_on_friday(w, friday) ==
    has_x_task_on_date(w, friday) /\ ~has_specific_x_task(w, friday, "Rituk")

\* eligible_base without the check of the closers already assigned
eligible_base_assigned_too(w, id, closers, friday) ==
    /\ can_participate_in_closing(w)
    /\ (friday - 7) \notin Range(w.closing_history)
    /\ (friday + 7) \notin Range(w.required_closing_dates)

\* eligible_base without the checks of the neighbouring Fridays
eligible_base_any_week(w, id, closers, friday) ==
    /\ can_participate_in_closing(w)
    /\ id \notin Range(closers)

\* eligible_base
eligible_base(w, id, closers, friday) ==
    /\ can_participate_in_closing(w)
    /\ id \notin Range(closers)
    /\ (friday - 7) \notin Range(w.closing_history)
    /\ (friday + 7) \notin Range(w.required_closing_dates)

\* a common multiple of the closing intervals, to compare overdue ratios
IntervalMultiple(ws) ==
    ProdOver([id \in DOMAIN ws |-> Max2(1, ws[id].closing_interval)], DOMAIN ws)

\* get_overdue_ratio(friday) = weeks overdue / interval, times IntervalMultiple
get_overdue_ratio(ws, id, friday) ==
    get_weeks_overdue(ws[id], friday) * (IntervalMultiple(ws) \div Max2(1, ws[id].closing_interval))

\* the sort key of the severely-overdue tier
overdue_key(ws, thursday) ==
    [id \in DOMAIN ws |->
        <<IF has_x_task_conflict(ws[id], thursday) THEN 1 ELSE 0,
          0 - get_overdue_ratio(ws, id, thursday + 1),
          0 - get_weeks_overdue(ws[id], thursday + 1),
          ws[id].score, total_y(ws[id]), id>>]

\* the sort key of the optimal-date tier
optimal_key(ws, thursday) ==
    [id \in DOMAIN ws |->
        <<IF has_x_task_conflict(ws[id], thursday) THEN 1 ELSE 0,
          ws[id].score, total_y(ws[id]), id>>]

\* the sort key of the closest-to-due tier
proximity_key(ws, thursday) ==
    [id \in DOMAIN ws |->
        <<IF has_x_task_conflict(ws[id], thursday) THEN 1 ELSE 0,
          get_weeks_until_due_to_close(ws[id], thursday + 1),
          ws[id].score, total_y(ws[id]), id>>]

\* a closer takes `task` for the whole weekend: the pair is recorded on every
\* weekend date, the Friday joins the history, the score hook runs (not in
\* the Rituk tier), the task count grows
AssignCloser(state, id, task, tier, thursday, weekend_dates) ==
    ValueOf(state, LAMBDA st :
        LET closed == assign_closing(st.ws[id], thursday + 1)
            scored == IF tier = "RITUK" THEN closed
                      ELSE update_score_after_assignment(closed, thursday + 1)
            counted == [scored EXCEPT !.y_task_counts[task] = @ + 1]
        IN  [st EXCEPT !.ws[id] = counted,
                       !.closers = Append(@, id),
                       !.asg = [d \in DOMAIN st.asg |->
                                   IF d \in weekend_dates
                                   THEN Append(st.asg[d], <<task, id>>) ELSE st.asg[d]],
                       !.un = RemoveFirst(@, task),
                       !.logs = Append(@, LogLine(tier, thursday, task, id))])

\* the loop of one tier over its candidates, from candidate i
RECURSIVE TierLoop(_, _, _, _, _, _, _, _)
TierLoop(state, order, i, tier, thursday, weekend_dates, num_slots, denom) ==
    ValueOf(state, LAMBDA st :
        IF i > Len(order) THEN st
        ELSE IF Len(st.closers) >= num_slots \/ st.un = <<>> THEN st
        ELSE IF tier = "OVERDUE" /\ get_weeks_overdue(st.ws[order[i]], thursday + 1) <= 0 THEN st
        ELSE LET id == order[i]
                 qualified == prioritize_tasks_by_scarcity(
                     SelectSeq(st.un, LAMBDA t : worker_qualifies_for(t, st.ws[id])), denom)
             IN  IF qualified = <<>>
                 THEN TierLoop(IF tier = "RITUK"
                               THEN [st EXCEPT !.logs = Append(@, LogLine("RitukNoTask", thursday, "", id))]
                               ELSE st,
                               order, i + 1, tier, thursday, weekend_dates, num_slots, denom)
                 ELSE TierLoop(AssignCloser(st, id, qualified[1], tier, thursday, weekend_dates),
                               order, i + 1, tier, thursday, weekend_dates, num_slots, denom))

\* a tier runs only while tasks and slots remain
RunTier(state, order, tier, thursday, weekend_dates, num_slots, denom) ==
    ValueOf(state, LAMBDA st :
        IF st.un # <<>> /\ Len(st.closers) < num_slots
        THEN TierLoop(st, order, 1, tier, thursday, weekend_dates, num_slots, denom)
        ELSE st)

\* step 3 of _assign_weekend_tasks: workers not picked lose this Friday as
\* optimal date and get a later one
RECURSIVE MissedLoop(_, _, _, _, _)
MissedLoop(state, roster, i, friday, weeks) ==
    ValueOf(state, LAMBDA st :
        IF i > Len(roster) THEN st
        ELSE LET id == roster[i]
             IN  IF id \notin Range(st.closers) /\ friday \in Range(st.ws[id].optimal_closing_dates)
                 THEN LET r == update_missed_optimal_close(st.ws[id], id, friday, weeks, st.logs)
                      IN  MissedLoop([st EXCEPT !.ws[id] = r.w, !.logs = r.logs],
                                     roster, i + 1, friday, weeks)
                 ELSE MissedLoop(st, roster, i + 1, friday, weeks))

\* step 4 left out: the tasks left are not reported
WeekendErrorsSilent(state, thursday) == state

\* step 4: one entry per task left, 'error' if closers of last week remain
WeekendErrors(state, thursday) ==
    ValueOf(state, LAMBDA st :
        LET friday == thursday + 1
            potential_last_week_only ==
                {id \in DOMAIN st.ws :
                    /\ can_participate_in_closing(st.ws[id])
                    /\ ~has_non_rituk_x_on_friday(st.ws[id], friday)
                    /\ id \notin Range(st.closers)
                    /\ (friday - 7) \in Range(st.ws[id].closing_history)}
            severity == IF potential_last_week_only # {} THEN "error" ELSE "warning"
            reason == IF potential_last_week_only # {} THEN "closed last week" ELSE "no closer"
        IN  [st EXCEPT
               !.errs = @ \o [k \in 1..Len(st.un) |->
                                 AssignmentError(st.un[k], thursday, reason, severity)],
               !.logs = @ \o [k \in 1..Len(st.un) |->
                                 LogLine(IF severity = "error" THEN "ERROR" ELSE "WARNING",
                                         thursday, st.un[k], 0)]])

\* a mandatory tier without candidates
rituk_required_none(ws, friday) == <<>>

\* the mandatory tier's candidates, in roster order
rituk_required(ws, friday) ==
    SelectSeq(Roster(ws), LAMBDA id :
        can_participate_in_closing(ws[id]) /\ has_specific_x_task(ws[id], friday, "Rituk"))

\* the names required across the window, as a set
weekend_names(weekend_tasks) ==
    UNION {Range(weekend_tasks[d]) : d \in DOMAIN weekend_tasks}

\* _assign_weekend_tasks; all_weekend_tasks is the sorted list of the names
\* required across the window; weekend_tasks maps the dates of the window that the
\* calendar holds to their task lists
assign_weekend_tasks(ws, thursday, weekend_tasks, all_weekend_tasks, asg, lg, errs, weeks, denom) ==
    LET friday == thursday + 1
        weekend_dates == DOMAIN weekend_tasks
        num_slots == Len(all_weekend_tasks)
        roster == Roster(ws)
        st0 == [ws |-> ws, asg |-> asg, errs |-> errs, closers |-> <<>>,
                un |-> SelectSeq(all_weekend_tasks, LAMBDA t : Y_TASK_AUTO_ASSIGN[t]),
                logs |-> (Append(lg, LogLine("Requires", thursday, "", num_slots)))
                         \o [k \in 1..Len(SelectSeq(all_weekend_tasks, LAMBDA t : ~Y_TASK_AUTO_ASSIGN[t])) |->
                               LogLine("Manual", thursday,
                                   SelectSeq(all_weekend_tasks, LAMBDA t : ~Y_TASK_AUTO_ASSIGN[t])[k], 0)]]
        overdue_candidates(st1) ==
            SortBy(SelectSeq(roster, LAMBDA id : eligible_base(st1.ws[id], id, st1.closers, friday)),
                   overdue_key(st1.ws, thursday))
        optimal_candidates(st2) ==
            SortBy(SelectSeq(roster, LAMBDA id :
                       eligible_base(st2.ws[id], id, st2.closers, friday)
                       /\ friday \in Range(st2.ws[id].optimal_closing_dates)),
                   optimal_key(st2.ws, thursday))
        remaining_candidates(st3) ==
            SortBy(SelectSeq(roster, LAMBDA id : eligible_base(st3.ws[id], id, st3.closers, friday)),
                   proximity_key(st3.ws, thursday))
    IN  ValueOf(TierLoop(st0, rituk_required(ws, friday), 1, "RITUK", thursday, weekend_dates, num_slots, denom),
           LAMBDA st1 :
        ValueOf(RunTier(st1, overdue_candidates(st1), "OVERDUE", thursday, weekend_dates, num_slots, denom),
           LAMBDA st2 :
        ValueOf(RunTier(st2, optimal_candidates(st2), "OPTIMAL", thursday, weekend_dates, num_slots, denom),
           LAMBDA st3 :
        ValueOf(RunTier(st3, remaining_candidates(st3), "PROXIMITY", thursday, weekend_dates, num_slots, denom),
           LAMBDA st4 :
        WeekendErrors(MissedLoop(st4, roster, 1, friday, weeks), thursday)))))

\* _was_recently_assigned: the worker holds a pair on the day before
was_recently_assigned(id, current_date, asg) ==
    /\ (current_date - 1) \in DOMAIN asg
    /\ \E k \in 1..Len(asg[current_date - 1]) : asg[current_date - 1][k][2] = id

\* a common multiple of the possible numbers of tasks of a worker
RECURSIVE Factorial(_)
Factorial(n) == IF n <= 1 THEN 1 ELSE n * Factorial(n - 1)

\* worker_scarcity_index times a multiple common to all workers: an integer
\* that orders the workers as their indexes do
ScaledIndex(wsi, id, denom) ==
    IF wsi[id][1] = 0 THEN 0
    ELSE wsi[id][1] * (Factorial(Len(Y_TASK_TYPES))
                          \div (wsi[id][2] \div ProdOver(denom, TaskNames)))

\* the first task left, whatever the worker's qualifications
find_any_task_for_worker(w, id, available_tasks, denom, wsi) ==
    IF available_tasks = <<>> THEN <<>> ELSE <<available_tasks[1]>>

\* _find_optimal_task_for_worker: <<task>>, or <<>> for None
find_optimal_task_for_worker(w, id, available_tasks, denom, wsi) ==
    LET qualified_tasks ==
            SelectSeq(available_tasks, LAMBDA t :
                (~Y_TASK_DEFS[t]) \/ worker_qualifies_for(t, w))
    IN  IF available_tasks = <<>> \/ qualified_tasks = <<>> THEN <<>>
        ELSE IF 2 * wsi[id][1] > wsi[id][2]
        THEN <<prioritize_tasks_by_scarcity(qualified_tasks, denom)[1]>>
        ELSE <<SortBy(qualified_tasks, [t \in TaskNames |-> <<0 - denom[t]>>])[1]>>

\* sort_key of _assign_weekday_tasks
weekday_key(ws, wsi, denom) ==
    [id \in DOMAIN ws |->
        <<total_y(ws[id]), ws[id].score,
          0 - ScaledIndex(wsi, id, denom), id>>]

\* the loop over sorted_workers of one weekly-cap tier, from worker i
RECURSIVE WeekdayWorkerLoop(_, _, _, _, _, _, _)
WeekdayWorkerLoop(state, sorted_workers, i, assigned_today, task_date, denom, wsi) ==
    ValueOf(state, LAMBDA st :
        IF i > Len(sorted_workers) \/ st.un = <<>> THEN st
        ELSE LET id == sorted_workers[i]
                 recently_assigned == was_recently_assigned(id, task_date, st.asg)
                 available_alternatives ==
                     SelectSeq(sorted_workers, LAMBDA o :
                         o \notin assigned_today /\ ~was_recently_assigned(o, task_date, st.asg))
                 optimal_task == find_optimal_task_for_worker(st.ws[id], id, st.un, denom, wsi)
             IN  IF id \in assigned_today
                 THEN WeekdayWorkerLoop(st, sorted_workers, i + 1, assigned_today, task_date, denom, wsi)
                 ELSE IF weekday(task_date) < 3 /\ recently_assigned /\ available_alternatives # <<>>
                 THEN WeekdayWorkerLoop(st, sorted_workers, i + 1, assigned_today, task_date, denom, wsi)
                 ELSE IF optimal_task = <<>>
                 THEN WeekdayWorkerLoop(st, sorted_workers, i + 1, assigned_today, task_date, denom, wsi)
                 ELSE WeekdayWorkerLoop(
                          [st EXCEPT !.asg[task_date] = Append(@, <<optimal_task[1], id>>),
                                     !.un = RemoveFirst(@, optimal_task[1]),
                                     !.ws[id].y_task_counts[optimal_task[1]] = @ + 1,
                                     !.logs = Append(@, LogLine("Weekday", task_date, optimal_task[1], id))],
                          sorted_workers, i + 1, assigned_today \cup {id}, task_date, denom, wsi))

\* the progressive weekly limit 0 -> 1 -> 2 -> 3, from limit max_weekly_tasks
RECURSIVE WeeklyCapLoop(_, _, _, _, _, _, _)
WeeklyCapLoop(state, max_weekly_tasks, pool, weekend_closers_this_week, task_date, denom, wsi) ==
    ValueOf(state, LAMBDA st :
        IF max_weekly_tasks > 3 THEN st
        ELSE LET week_start == task_date - weekday(task_date)
                 eligible_workers ==
                     SelectSeq(pool, LAMBDA id :
                         check_multiple_y_tasks_per_week(st.ws[id], week_start) <= max_weekly_tasks)
                 key == weekday_key(st.ws, wsi, denom)
                 non_closers == SortBy(SelectSeq(eligible_workers,
                                    LAMBDA id : id \notin weekend_closers_this_week), key)
                 closers == SortBy(SelectSeq(eligible_workers,
                                    LAMBDA id : id \in weekend_closers_this_week), key)
             IN  IF eligible_workers = <<>>
                 THEN WeeklyCapLoop(st, max_weekly_tasks + 1, pool,
                                    weekend_closers_this_week, task_date, denom, wsi)
                 ELSE ValueOf(non_closers \o closers, LAMBDA sorted_workers :
                      ValueOf(WeekdayWorkerLoop(st, sorted_workers, 1, {}, task_date, denom, wsi),
                          LAMBDA after :
                              IF after.un = <<>> THEN after
                              ELSE WeeklyCapLoop(after, max_weekly_tasks + 1, pool,
                                                 weekend_closers_this_week, task_date, denom, wsi))))

\* base availability: not assigned that day, did not close that day
base_available(ws, task_date, asg) ==
    LET assigned_worker_ids_today == {asg[task_date][k][2] : k \in 1..Len(asg[task_date])}
    IN  SelectSeq(Roster(ws), LAMBDA id :
            id \notin assigned_worker_ids_today
            /\ task_date \notin Range(ws[id].closing_history))

\* the workers without X-task that day
preferred_available(ws, task_date, asg) ==
    SelectSeq(base_available(ws, task_date, asg), LAMBDA id :
        ~has_x_task_on_date(ws[id], task_date))

\* the pool: the preferred workers, or all of base when there is none
available_workers(ws, task_date, asg) ==
    IF preferred_available(ws, task_date, asg) # <<>>
    THEN preferred_available(ws, task_date, asg)
    ELSE base_available(ws, task_date, asg)

\* _assign_weekday_tasks
assign_weekday_tasks(ws, task_date, tasks_needed, asg, lg, errs, denom, wsi) ==
    LET open == SelectSeq(tasks_needed, LAMBDA t :
                    ~\E k \in 1..Len(asg[task_date]) : asg[task_date][k][1] = t)
        manual == SelectSeq(open, LAMBDA t : ~Y_TASK_AUTO_ASSIGN[t])
        week_friday == task_date - weekday(task_date) + 4
        weekend_closers_this_week ==
            {id \in DOMAIN ws : week_friday \in Range(ws[id].closing_history)}
        st0 == [ws |-> ws, asg |-> asg, errs |-> errs, closers |-> <<>>,
                un |-> SelectSeq(open, LAMBDA t : Y_TASK_AUTO_ASSIGN[t]),
                logs |-> lg \o [k \in 1..Len(manual) |->
                                     LogLine("Manual", task_date, manual[k], 0)]]
    IN  ValueOf(WeeklyCapLoop(st0, 0, available_workers(ws, task_date, asg),
                              weekend_closers_this_week,
                              task_date, denom, wsi),
            LAMBDA st1 :
                [st1 EXCEPT
                   !.errs = @ \o [k \in 1..Len(st1.un) |->
                                     AssignmentError(st1.un[k], task_date, "no qualified worker", "error")],
                   !.logs = @ \o [k \in 1..Len(st1.un) |->
                                     LogLine("ERROR", task_date, st1.un[k], 0)]])

(***************************************************************************)
(* assign_tasks_for_range, one unit of the date walk per step              *)
(***************************************************************************)
\* the rosters, ranges and calendars of the runs
WorkerIds == {1, 2}

QualSets == {{"Driver"}, {"Supervisor", "Driver"}}

\* <<closing_interval, closing_history>> before the run: a worker who takes no
\* part in closing, and workers whose last close lies nowhere, or one, two or
\* four weeks before the first Friday
ClosingProfiles == {<<0, <<>>>>, <<2, <<>>>>, <<2, <<0 - 24>>>>,
                    <<3, <<0 - 10>>>>, <<3, <<0 - 3>>>>}

\* two whole weeks from a Monday, or a Saturday to the next Thursday
Ranges == {<<0, LastDay>>, <<5, 10>>}


\* the dates an X-task may lie on: a Tuesday and the two Fridays
XDays == {1, 4, 11}

\* the calendars: every task type on every day, or one task a day with the
\* first Friday left out
Calendars == {<<Y_TASK_TYPES, {}>>, <<(<<"Supervisor">>), {4}>>}

EngineInit ==
    /\ pc = "init"
    /\ DemoIdle
    /\ allow_single_relief_min1 = TRUE
    /\ relief_max_per_semester = 1
    /\ semester_weeks = <<>>
    /\ calc_results = <<>>
    /\ \E r \in Ranges : start_date = r[1] /\ end_date = r[2]
    /\ date_cursor = start_date
    /\ \E cal \in Calendars :
          tasks_by_date = [d \in (start_date..end_date) \ cal[2] |-> cal[1]]
    /\ assignments = <<>>
    /\ logs = <<>>
    /\ assignment_errors = <<>>
    /\ task_scarcity = <<>>
    /\ worker_scarcity_index = <<>>
    /\ \E xd \in XDays :
         \E q \in [WorkerIds -> QualSets], c \in [WorkerIds -> ClosingProfiles],
            x \in [WorkerIds -> XTaskNames \cup {"none"}] :
            workers = [id \in WorkerIds |->
                NewWorker(q[id], c[id][1],
                          IF x[id] = "none" THEN XTasksOn({}, "Guard") ELSE XTasksOn({xd}, x[id]),
                          c[id][2])]

\* steps 0 and 1 of assign_tasks_for_range: errors cleared, the assignment grid
\* laid out, the closing schedules and the scarcities computed
StartRun ==
    /\ pc = "init"
    /\ \E fridays \in {all_fridays_in_range(start_date, end_date)} :
       \E weeks \in {IF fridays # <<>> THEN fridays ELSE <<start_date>>} :
       \E ws \in {update_all_worker_schedules(workers, weeks,
                     allow_single_relief_min1, relief_max_per_semester)} :
       \E denom \in {compute_qualification_scarcity(ws)} :
           /\ semester_weeks' = weeks
           /\ workers' = ws
           /\ calc_results' = [id \in DOMAIN workers |->
                 calculate_worker_closing_schedule(workers[id], weeks,
                     allow_single_relief_min1, relief_max_per_semester)]
           /\ task_scarcity' = denom
           /\ worker_scarcity_index' =
                 [id \in DOMAIN ws |-> compute_worker_scarcity_index(ws[id], denom)]
           /\ logs' = IF fridays = <<>> THEN <<LogLine("NoWeekends", start_date, "", 0)>>
                      ELSE <<>>
    /\ assignment_errors' = <<>>
    /\ assignments' = [d \in {d \in DOMAIN tasks_by_date : d >= start_date /\ d <= end_date}
                          |-> <<>>]
    /\ date_cursor' = start_date
    /\ pc' = "walk"
    /\ UNCHANGED <<allow_single_relief_min1, relief_max_per_semester,
                   start_date, end_date, tasks_by_date>>
    /\ UNCHANGED demoVars

\* a jump of the cursor past the Sunday, to the Monday after the window
move_to_next_monday(thursday) == thursday + 4

\* date_cursor = thursday + timedelta(days=3): the Sunday after the window
move_to_next_sunday(thursday) == thursday + 3

\* the walk reaches a Thursday, Friday or Saturday: the whole weekend is one
\* unit, then the cursor moves to the next Sunday
ProcessWeekend ==
    /\ pc = "walk"
    /\ date_cursor <= end_date
    /\ weekday(date_cursor) \in {3, 4, 5}
    /\ LET thursday == date_cursor - (weekday(date_cursor) - 3)
           weekend_tasks_for_dates ==
               [d \in {thursday, thursday + 1, thursday + 2} \cap DOMAIN tasks_by_date
                   |-> tasks_by_date[d]]
           opened == Append(logs, LogLine("Weekend", thursday, "", 0))
       IN  /\ IF \E d \in DOMAIN weekend_tasks_for_dates : weekend_tasks_for_dates[d] # <<>>
              THEN \E all_weekend_tasks \in
                          {sorted_names(o) : o \in SetOrders(weekend_names(weekend_tasks_for_dates))} :
                   \E r \in {assign_weekend_tasks(workers, thursday, weekend_tasks_for_dates,
                                 all_weekend_tasks, assignments, opened, assignment_errors,
                                 all_fridays_in_range(start_date, end_date), task_scarcity)} :
                   /\ workers' = r.ws
                   /\ assignments' = r.asg
                   /\ logs' = r.logs
                   /\ assignment_errors' = r.errs
              ELSE /\ logs' = opened
                   /\ UNCHANGED <<workers, assignments, assignment_errors>>
           /\ date_cursor' = move_to_next_sunday(thursday)
    /\ UNCHANGED <<allow_single_relief_min1, relief_max_per_semester, semester_weeks,
                   calc_results, pc, start_date, end_date, tasks_by_date,
                   task_scarcity, worker_scarcity_index>>
    /\ UNCHANGED demoVars

\* the walk reaches a Sunday, Monday, Tuesday or Wednesday
ProcessWeekday ==
    /\ pc = "walk"
    /\ date_cursor <= end_date
    /\ weekday(date_cursor) \notin {3, 4, 5}
    /\ IF date_cursor \in DOMAIN tasks_by_date /\ tasks_by_date[date_cursor] # <<>>
       THEN \E r \in {assign_weekday_tasks(workers, date_cursor, tasks_by_date[date_cursor],
                         assignments, logs, assignment_errors,
                         task_scarcity, worker_scarcity_index)} :
                /\ workers' = r.ws
                /\ assignments' = r.asg
                /\ logs' = r.logs
                /\ assignment_errors' = r.errs
       ELSE UNCHANGED <<workers, assignments, logs, assignment_errors>>
    /\ date_cursor' = date_cursor + 1
    /\ UNCHANGED <<allow_single_relief_min1, relief_max_per_semester, semester_weeks,
                   calc_results, pc, start_date, end_date, tasks_by_date,
                   task_scarcity, worker_scarcity_index>>
    /\ UNCHANGED demoVars

\* step 3: the closing schedules are recomputed over the Fridays of the range
\* and the result is returned
FinishRun ==
    /\ pc = "walk"
    /\ date_cursor > end_date
    /\ LET weeks == all_fridays_in_range(start_date, end_date)
       IN  /\ workers' = update_all_worker_schedules(workers, weeks,
                             allow_single_relief_min1, relief_max_per_semester)
           /\ calc_results' = [id \in DOMAIN workers |->
                 calculate_worker_closing_schedule(workers[id], weeks,
                     allow_single_relief_min1, relief_max_per_semester)]
           /\ semester_weeks' = weeks
    /\ logs' = Append(logs, LogLine("Recalculated", end_date, "", 0))
    /\ pc' = "done"
    /\ UNCHANGED <<allow_single_relief_min1, relief_max_per_semester,
                   start_date, end_date, tasks_by_date, assignments,
                   assignment_errors, date_cursor, task_scarcity, worker_scarcity_index>>
    /\ UNCHANGED demoVars

Next == StartRun \/ ProcessWeekend \/ ProcessWeekday \/ FinishRun

Spec == EngineInit /\ [][Next]_vars

\* the ranges of the date walk: every weekday as start, every later date up to
\* LastDay as end
WalkRanges == {r \in (0..6) \X (0..LastDay) : r[1] <= r[2]}

\* the calendars of the date walk: every task type on every day, one task a
\* day with the first Friday left out, and one task a day with the whole first
\* weekend left out
WalkCalendars == Calendars \cup {<<(<<"Supervisor">>), {3, 4, 5}>>}

\* the closing profiles of the rosters of the date walk
WalkProfiles == {<<0, <<>>>>, <<2, <<>>>>}

\* the inputs of a run for the date walk: any range, two workers without
\* X-tasks
WalkInit ==
    /\ pc = "init"
    /\ DemoIdle
    /\ allow_single_relief_min1 = TRUE
    /\ relief_max_per_semester = 1
    /\ semester_weeks = <<>>
    /\ calc_results = <<>>
    /\ \E r \in WalkRanges : start_date = r[1] /\ end_date = r[2]
    /\ date_cursor = start_date
    /\ \E cal \in WalkCalendars :
          tasks_by_date = [d \in (start_date..end_date) \ cal[2] |-> cal[1]]
    /\ assignments = <<>>
    /\ logs = <<>>
    /\ assignment_errors = <<>>
    /\ task_scarcity = <<>>
    /\ worker_scarcity_index = <<>>
    /\ \E c \in [WorkerIds -> WalkProfiles] :
          workers = [id \in WorkerIds |->
              NewWorker(IF id = 1 THEN {"Driver"} ELSE {"Supervisor", "Driver"},
                        c[id][1], XTasksOn({}, "Guard"), c[id][2])]

\* the run goes on until it returns: the loop of assign_tasks_for_range is
\* never suspended
SpecWalk == WalkInit /\ [][Next]_vars /\ WF_vars(Next)

(***************************************************************************)
(* closing_decision_demo: run_demo and select_closers_for_week             *)
(***************************************************************************)
\* has_y_task_scheduled(d): the worker's own calendar holds a Y-task on d
has_y_task_scheduled(w, d) == d \in w.y_tasks

\* get_closing_interval()
get_closing_interval(w) == w.closing_interval

\* get_required_closers_for_week
get_required_closers_for_week(ws, friday) ==
    SelectSeq(Roster(ws), LAMBDA id :
        friday \in Range(ws[id].required_closing_dates) /\ can_participate_in_closing(ws[id]))

\* is_worker_available_for_closing: no X-task on the Friday, no Y-task from
\* Thursday to Saturday
is_worker_available_for_closing(w, friday) ==
    /\ ~has_x_task_on_date(w, friday)
    /\ \A d \in {friday, friday - 1, friday + 1} : ~has_y_task_scheduled(w, d)

\* respects_min_gap: interval weeks or more from every close of the history
respects_min_gap(w, friday) ==
    \A prev \in Range(w.closing_history) :
        Dist(friday, prev) \div 7 >= Max2(2, get_closing_interval(w))

\* respects_required_anchor_spacing
respects_required_anchor_spacing(w, friday) ==
    \A a \in Range(w.required_closing_dates) :
        a = friday \/ Dist(friday, a) \div 7 >= Max2(2, get_closing_interval(w))

\* compute_eligible_workers under the default DecisionConfig, role None
compute_eligible_workers(ws, friday) ==
    SelectSeq(Roster(ws), LAMBDA id :
        /\ can_participate_in_closing(ws[id])
        /\ is_worker_available_for_closing(ws[id], friday)
        /\ respects_min_gap(ws[id], friday))

\* proximity_to_optimal_bonus, in halves: 1.0, 0.5 or 0.0
proximity_to_optimal_bonus(w, friday) ==
    IF friday \in Range(w.optimal_closing_dates) THEN 2
    ELSE IF \E delta \in 1..2, sign \in {0 - 1, 1} :
                (friday + 7 * delta * sign) \in Range(w.optimal_closing_dates)
         THEN 1
         ELSE 0

\* spacing_beyond_min_bonus, in quarters: min(1.0, extra * 0.25)
spacing_beyond_min_bonus(w, friday) ==
    IF w.closing_history = <<>> THEN 0
    ELSE LET weeks_since == (friday - SetMax(Range(w.closing_history))) \div 7
             extra == Max2(0, weeks_since - Max2(2, get_closing_interval(w)))
         IN  IF weeks_since <= 0 THEN 0
             ELSE IF extra >= 4 THEN 4 ELSE extra

\* compute_fairness_adjustment, in units of -0.3: the score clamped to 0..3
compute_fairness_adjustment(w) ==
    IF w.score <= 0 THEN 0 ELSE IF w.score >= 3 THEN 3 ELSE w.score

\* the total of score_candidates for one worker, as an exact number times
\* 40 * (a common multiple of the denominators of the scarcity indexes):
\* 2.0 * proximity + 0.5 * spacing - 0.3 * fairness - scarcity index
candidate_total(ws, id, friday) ==
    LET denom == compute_qualification_scarcity(ws)
        idx == compute_worker_scarcity_index(ws[id], denom)
        K == ProdOver(denom, TaskNames) * Factorial(Len(Y_TASK_TYPES))
    IN  K * (40 * proximity_to_optimal_bonus(ws[id], friday)
             + 5 * spacing_beyond_min_bonus(ws[id], friday)
             - 12 * compute_fairness_adjustment(ws[id]))
        - 40 * idx[1] * (K \div idx[2])

\* score_candidates: the candidates by (-total, worker_id)
score_candidates(ws, candidates, friday) ==
    SortBy(candidates, [id \in DOMAIN ws |-> <<0 - candidate_total(ws, id, friday), id>>])

\* one error string of the validation
ValidationError(kind, id, d) == [kind |-> kind, worker |-> id, date |-> d]

\* validate_min_gap: one error per pair of neighbours of the sorted history
\* that lie less than the interval apart
validate_min_gap(w, id) ==
    LET hist == SortBy(w.closing_history, [d \in Range(w.closing_history) |-> <<d>>])
        short == SelectSeq([i \in 1..(Len(hist) - 1) |-> i + 1], LAMBDA i :
                     (hist[i] - hist[i - 1]) \div 7 < Max2(2, get_closing_interval(w)))
    IN  [k \in 1..Len(short) |-> ValidationError("MinGap", id, hist[short[k]])]

\* validate_no_conflicts, from date i of the history
RECURSIVE validate_no_conflicts(_, _, _)
validate_no_conflicts(w, id, i) ==
    IF i > Len(w.closing_history) THEN <<>>
    ELSE LET d == w.closing_history[i]
         IN  (IF has_x_task_on_date(w, d) THEN <<ValidationError("XConflict", id, d)>> ELSE <<>>)
             \o (IF \E e \in {d, d - 1, d + 1} : has_y_task_scheduled(w, e)
                 THEN <<ValidationError("YConflict", id, d)>> ELSE <<>>)
             \o validate_no_conflicts(w, id, i + 1)

\* step 3 of select_closers_for_week, from assignment i: the Friday is added to
\* the history if absent, the history is validated, and every entry equal to
\* the Friday is taken out again
RECURSIVE ValidationLoop(_, _, _, _)
ValidationLoop(st, assigned, i, week_friday) ==
    IF i > Len(assigned) THEN st
    ELSE LET id == assigned[i].worker_id
             w == st.ws[id]
             tentative ==
                 IF week_friday \notin Range(w.closing_history)
                 THEN [w EXCEPT !.closing_history =
                          SortBy(Append(@, week_friday),
                                 [d \in Range(@) \cup {week_friday} |-> <<d>>])]
                 ELSE w
             reverted == [tentative EXCEPT !.closing_history =
                             SelectSeq(@, LAMBDA d : d # week_friday)]
         IN  ValidationLoop(
                 [st EXCEPT !.ws[id] = reverted,
                            !.errors = @ \o validate_min_gap(tentative, id)
                                         \o validate_no_conflicts(tentative, id, 1)],
                 assigned, i + 1, week_friday)

\* select_closers_for_week(workers, week_friday, semester_weeks, cfg) without
\* roles_needed: [ws, result]
select_closers_for_week(ws, week_friday, weeks, capacity) ==
    LET required == get_required_closers_for_week(ws, week_friday)
        remaining_slots == Max2(0, capacity - Len(required))
        candidates ==
            SelectSeq(compute_eligible_workers(ws, week_friday), LAMBDA id :
                id \notin Range(required)
                /\ respects_required_anchor_spacing(ws[id], week_friday))
        scored == IF remaining_slots > 0
                  THEN score_candidates(ws, candidates, week_friday) ELSE <<>>
        taken == IF Len(scored) <= remaining_slots THEN scored
                 ELSE SubSeq(scored, 1, remaining_slots)
        assigned == [k \in 1..Len(required) |-> [worker_id |-> required[k], is_required |-> TRUE]]
                    \o [k \in 1..Len(taken) |-> [worker_id |-> taken[k], is_required |-> FALSE]]
        cap_errors == IF Len(assigned) > capacity
                      THEN <<ValidationError("Capacity", 0, week_friday)>> ELSE <<>>
        st == ValidationLoop([ws |-> ws, errors |-> cap_errors], assigned, 1, week_friday)
    IN  [ws |-> st.ws,
         result |-> [week_friday |-> week_friday,
                     assignments |-> assigned,
                     candidate_scores |-> scored,
                     logs |-> [k \in 1..Len(assigned) |->
                                  LogLine(IF assigned[k].is_required THEN "assigned_required"
                                          ELSE "assigned_optional",
                                          week_friday, "", assigned[k].worker_id)],
                     errors |-> st.errors]]

\* <<closing_interval, closing_history>> of the workers the demo loads: no
\* part in closing, no history, a close on the first Friday of the range, and
\* an unsorted history with a close on the second Friday
DemoProfiles == {<<0, <<>>>>, <<2, <<>>>>, <<2, <<4>>>>, <<3, <<11, 0 - 10>>>>}

\* run_demo(data_dir, start, end, weekly_capacity): the workers as loaded, a
\* range of two weeks
DemoInit ==
    /\ pc = "demo_init"
    /\ allow_single_relief_min1 = TRUE
    /\ relief_max_per_semester = 1
    /\ semester_weeks = <<>>
    /\ calc_results = <<>>
    /\ start_date = 0 /\ end_date = LastDay /\ date_cursor = 0
    /\ tasks_by_date = <<>> /\ assignments = <<>>
    /\ logs = <<>> /\ assignment_errors = <<>>
    /\ task_scarcity = <<>> /\ worker_scarcity_index = <<>>
    /\ weekly_capacity \in 1..DefaultCapacity
    /\ week_results = <<>>
    /\ \E xd \in {4, 11} :
         \E q \in [WorkerIds -> QualSets], c \in [WorkerIds -> DemoProfiles],
            x \in [WorkerIds -> XTaskNames \cup {"none"}] :
            workers = [id \in WorkerIds |->
                NewWorker(q[id], c[id][1],
                          IF x[id] = "none" THEN XTasksOn({}, "Guard") ELSE XTasksOn({xd}, x[id]),
                          c[id][2])]

\* run_demo before its loop: the Fridays of the range, the closing schedules
PrepareDemo ==
    /\ pc = "demo_init"
    /\ LET fridays == all_fridays_in_range(start_date, end_date)
           weeks == IF fridays # <<>> THEN fridays ELSE <<start_date>>
       IN  /\ semester_weeks' = weeks
           /\ workers' = update_all_worker_schedules(workers, weeks,
                             allow_single_relief_min1, relief_max_per_semester)
           /\ date_cursor' = weeks[1]
    /\ pc' = "demo"
    /\ UNCHANGED <<allow_single_relief_min1, relief_max_per_semester, calc_results>>
    /\ UNCHANGED <<start_date, end_date, tasks_by_date, assignments, logs,
                   assignment_errors, task_scarcity, worker_scarcity_index>>
    /\ UNCHANGED demoVars

\* one pass of the loop of run_demo: select_closers_for_week for the Friday
\* the loop has reached
SelectWeek ==
    /\ pc = "demo"
    /\ date_cursor \in Range(semester_weeks)
    /\ \E r \in {select_closers_for_week(workers, date_cursor, semester_weeks, weekly_capacity)} :
          /\ workers' = r.ws
          /\ week_results' = [d \in DOMAIN week_results \cup {date_cursor} |->
                                 IF d = date_cursor THEN r.result ELSE week_results[d]]
    /\ LET later == {d \in Range(semester_weeks) : d > date_cursor}
       IN  date_cursor' = IF later = {} THEN end_date + 1 ELSE SetMin(later)
    /\ UNCHANGED <<allow_single_relief_min1, relief_max_per_semester, semester_weeks,
                   calc_results, pc, weekly_capacity>>
    /\ UNCHANGED <<start_date, end_date, tasks_by_date, assignments, logs,
                   assignment_errors, task_scarcity, worker_scarcity_index>>

DemoNext == PrepareDemo \/ SelectWeek

SpecDemo == DemoInit /\ [][DemoNext]_vars

\* C16: a call of select_closers_for_week leaves every worker's closing_history
\* with the set of dates it had before the call
C16_HistoryRestored ==
    [][(pc = "demo" /\ date_cursor' # date_cursor) =>
          \A id \in DOMAIN workers :
              Range(workers'[id].closing_history) = Range(workers[id].closing_history)]_vars

(***************************************************************************)
(* Properties of the engine                                                *)
(***************************************************************************)
\* Thursday, Friday and Saturday are handled as one weekend unit
IsWeekendDay(d) == weekday(d) \in {3, 4, 5}

\* the date of the unit that handles date d: the Thursday of its window, or d
UnitDate(d) == IF IsWeekendDay(d) THEN d - (weekday(d) - 3) ELSE d

InRun == pc \in {"walk", "done"}

\* the Thursdays whose window meets the range
Thursdays == {th \in (start_date - 2)..end_date : weekday(th) = 3}

\* the task names the calendar requires across the window of Thursday th
WindowTasks(th) ==
    UNION {Range(tasks_by_date[d]) : d \in {th, th + 1, th + 2} \cap DOMAIN tasks_by_date}

\* the weekend of Thursday th has been processed with at least one task
WeekendDone(th) == InRun /\ th + 3 <= date_cursor /\ WindowTasks(th) # {}

\* the log reports that tier `tier` made worker id a closer of the weekend
ClosedIn(th, id, tier) ==
    \E e \in Range(logs) : e.kind = tier /\ e.date = th /\ e.worker = id

LaterTiers == {"OVERDUE", "OPTIMAL", "PROXIMITY"}

\* the worker holds an X-task other than "Rituk" on date d
NonRitukXTask(w, d) == has_x_task_on_date(w, d) /\ ~has_specific_x_task(w, d, "Rituk")

\* C1: no pair of the assignment grid puts a worker on a date on which the
\* worker's x_tasks holds a non-empty value other than "Rituk"
C1_NoXTaskConflict ==
    \A d \in DOMAIN assignments : \A p \in Range(assignments[d]) :
        ~NonRitukXTask(workers[p[2]], d)

\* all the closing dates of a worker
ClosingDates(id) ==
    Range(workers[id].closing_history) \cup Range(workers[id].required_closing_dates)
        \cup Range(workers[id].optimal_closing_dates)

\* the pairs of neighbours of a set of dates in ascending order
AdjacentPairs(S) ==
    {p \in S \X S : p[1] < p[2] /\ ~\E c \in S : p[1] < c /\ c < p[2]}

\* the dates of the relief picks of the last calculation
ReliefDates(id) ==
    {semester_weeks[ReliefEvents(id)[k].week] : k \in 1..Len(ReliefEvents(id))}

\* C2: after a run, neighbouring closing dates of a worker (history, required
\* and optimal together) are closing_interval weeks or more apart, except at
\* most relief_max_per_semester pairs that start at a relief pick and are
\* closing_interval - 1 weeks apart
C2_MinGap ==
    pc = "done" =>
        \A id \in DOMAIN workers :
            LET ci == workers[id].closing_interval
                short == {p \in AdjacentPairs(ClosingDates(id)) : p[2] - p[1] < 7 * ci}
            IN  /\ Cardinality(short) <= relief_max_per_semester
                /\ \A p \in short : p[2] - p[1] = 7 * (ci - 1) /\ p[1] \in ReliefDates(id)

\* the mandatory tier gave worker id a task at the weekend of th, or no task
\* the worker is qualified for was left at the worker's turn
RitukServed(th, id) ==
    \/ ClosedIn(th, id, "RITUK")
    \/ \A t \in WindowTasks(th) :
          (Y_TASK_AUTO_ASSIGN[t] /\ worker_qualifies_for(t, workers[id]))
              => \E e \in Range(logs) :
                     e.kind = "RITUK" /\ e.date = th /\ e.task = t /\ e.worker < id

\* the lines of the mandatory tier come before the lines of the later tiers
RitukFirst(th) ==
    \A i, j \in 1..Len(logs) :
        (logs[i].date = th /\ logs[i].kind = "RITUK"
            /\ logs[j].date = th /\ logs[j].kind \in LaterTiers) => i < j

\* C3, as the specification states it: at every processed weekend each worker
\* with X-task "Rituk" on the Friday is made closer by the mandatory tier,
\* before the later tiers, if qualified for a task still left
C3_RitukAlways ==
    \A th \in Thursdays : WeekendDone(th) =>
        /\ RitukFirst(th)
        /\ \A id \in DOMAIN workers :
              has_specific_x_task(workers[id], th + 1, "Rituk") => RitukServed(th, id)

\* C3: at every processed weekend each worker cleared by
\* can_participate_in_closing with X-task "Rituk" on the Friday is made closer
\* by the mandatory tier, before the later tiers, if qualified for a task
\* still left
C3_RitukMandatory ==
    \A th \in Thursdays : WeekendDone(th) =>
        /\ RitukFirst(th)
        /\ \A id \in DOMAIN workers :
              (can_participate_in_closing(workers[id])
                  /\ has_specific_x_task(workers[id], th + 1, "Rituk"))
              => RitukServed(th, id)

\* C3 witness: a weekend with a closer of the mandatory tier and a closer of
\* a later tier
C3_Witness ==
    \E th \in Thursdays :
        /\ WeekendDone(th)
        /\ \E id \in DOMAIN workers : ClosedIn(th, id, "RITUK")
        /\ \E id \in DOMAIN workers, tier \in LaterTiers : ClosedIn(th, id, tier)

\* C4: on a date handled by weekday assignment no worker holds two pairs
C4_OneTaskPerDay ==
    \A d \in DOMAIN assignments :
        ~IsWeekendDay(d) =>
            \A i, j \in 1..Len(assignments[d]) :
                i # j => assignments[d][i][2] # assignments[d][j][2]

\* task t of date d is assigned on d or reported for the unit of d
Covered(d, t) ==
    \/ \E p \in Range(assignments[d]) : p[1] = t
    \/ \E e \in Range(assignment_errors) : e.task_type = t /\ e.date = UnitDate(d)

\* C5: every auto-assignable task of a date the walk has passed is assigned on
\* that date or reported in assignment_errors (on the date for weekdays, on the
\* Thursday for weekends), and the walk ends beyond end_date
C5_NoSilentDrop ==
    InRun =>
        /\ \A d \in DOMAIN tasks_by_date :
              d < date_cursor =>
                  \A t \in Range(tasks_by_date[d]) : Y_TASK_AUTO_ASSIGN[t] => Covered(d, t)
        /\ pc = "done" => date_cursor > end_date

\* C5 witness: a finished run with an unfilled task at a weekend and on a
\* weekday, each followed by assignments on the same day and on later days
C5_Witness ==
    /\ pc = "done"
    /\ \E e \in Range(assignment_errors) :
          /\ IsWeekendDay(e.date)
          /\ \E d \in DOMAIN assignments :
                d >= e.date /\ d <= e.date + 2 /\ assignments[d] # <<>>
          /\ \E d \in DOMAIN assignments : d > e.date + 2 /\ assignments[d] # <<>>
    /\ \E e \in Range(assignment_errors) :
          /\ ~IsWeekendDay(e.date)
          /\ assignments[e.date] # <<>>
          /\ \E d \in DOMAIN assignments : d > e.date /\ assignments[d] # <<>>

\* qualified as weekday assignment sees it
QualifiedWeekday(t, w) == (~Y_TASK_DEFS[t]) \/ worker_qualifies_for(t, w)

\* the entries of assignment_errors of task t on date d
ErrorsFor(errs, t, d) ==
    {k \in 1..Len(errs) : errs[k].task_type = t /\ errs[k].date = d}

\* C6: when a weekday requires an auto-assignable task that no worker of the
\* pool is qualified for, the step leaves exactly one entry for the task and
\* date, of severity "error", and no pair for the task on that date
C6_WeekdayNoQualified ==
    [][(/\ pc = "walk" /\ date_cursor <= end_date
        /\ ~IsWeekendDay(date_cursor)
        /\ date_cursor \in DOMAIN tasks_by_date)
       => \A t \in Range(tasks_by_date[date_cursor]) :
             (/\ Y_TASK_AUTO_ASSIGN[t]
              /\ \A id \in Range(available_workers(workers, date_cursor, assignments)) :
                    ~QualifiedWeekday(t, workers[id]))
             => /\ Cardinality(ErrorsFor(assignment_errors', t, date_cursor)) = 1
                /\ \A k \in ErrorsFor(assignment_errors', t, date_cursor) :
                      assignment_errors'[k].severity = "error"
                /\ ~\E p \in Range(assignments'[date_cursor]) : p[1] = t]_vars

\* C6 witness: an error entry on a weekday for a task that requires a
\* qualification no worker of the roster has, while other tasks of the day
\* are assigned
C6_Witness ==
    \E e \in Range(assignment_errors) :
        /\ ~IsWeekendDay(e.date)
        /\ e.severity = "error"
        /\ Y_TASK_DEFS[e.task_type] /\ Y_TASK_AUTO_ASSIGN[e.task_type]
        /\ \A id \in DOMAIN workers : ~worker_qualifies_for(e.task_type, workers[id])
        /\ assignments[e.date] # <<>>

\* the window of the unit the walk is about to process
NextWindow ==
    LET th == UnitDate(date_cursor)
    IN  [d \in {th, th + 1, th + 2} \cap DOMAIN tasks_by_date |-> tasks_by_date[d]]

\* the key gives the two workers different places
Separates(key, a, b) == key[a] # key[b]

\* C7: a step of the walk depends on nothing but the state it starts from:
\* every sort key of the tiers and of weekday assignment tells any two workers
\* apart, and whatever the order in which the set of weekend task names is
\* iterated, the weekend comes out with the workers, assignment grid, log and
\* errors of the step taken
C7_Deterministic ==
    [][(pc = "walk" /\ date_cursor <= end_date) =>
        /\ \A a, b \in DOMAIN workers :
              a # b =>
                  /\ Separates(overdue_key(workers, UnitDate(date_cursor)), a, b)
                  /\ Separates(optimal_key(workers, UnitDate(date_cursor)), a, b)
                  /\ Separates(proximity_key(workers, UnitDate(date_cursor)), a, b)
                  /\ Separates(weekday_key(workers, worker_scarcity_index, task_scarcity), a, b)
        /\ (IsWeekendDay(date_cursor) /\ weekend_names(NextWindow) # {}) =>
              \A all_weekend_tasks \in
                     {sorted_names(o) : o \in SetOrders(weekend_names(NextWindow))} :
                 \A r \in {assign_weekend_tasks(workers, UnitDate(date_cursor), NextWindow,
                              all_weekend_tasks, assignments,
                              Append(logs, LogLine("Weekend", UnitDate(date_cursor), "", 0)),
                              assignment_errors,
                              all_fridays_in_range(start_date, end_date), task_scarcity)} :
                     /\ r.ws = workers'
                     /\ r.asg = assignments'
                     /\ r.logs = logs'
                     /\ r.errs = assignment_errors']_vars

\* C7 witness: a weekend with several task names is about to be processed and
\* two workers are equal in every component of the keys but the id
C7_Witness ==
    /\ pc = "walk" /\ date_cursor <= end_date
    /\ IsWeekendDay(date_cursor)
    /\ Cardinality(weekend_names(NextWindow)) >= 3
    /\ \E a, b \in DOMAIN workers :
          /\ a # b
          /\ SubSeq(overdue_key(workers, UnitDate(date_cursor))[a], 1, 5)
                 = SubSeq(overdue_key(workers, UnitDate(date_cursor))[b], 1, 5)
          /\ SubSeq(proximity_key(workers, UnitDate(date_cursor))[a], 1, 4)
                 = SubSeq(proximity_key(workers, UnitDate(date_cursor))[b], 1, 4)

\* the worker with everything but closing_interval, qualifications and X-tasks
\* as load_workers_from_json leaves it
FreshWorker(w) == NewWorker(w.qualifications, w.closing_interval, w.x_tasks, <<>>)

\* the step runs update_all_worker_schedules: the start or the end of a run
SchedulesUpdated == pc # pc'

\* C15: the dates the calculator returns for a worker are those it returns for
\* a worker with the same closing_interval and X-tasks and no history, score,
\* task counts or stored dates, and those it returns when the worker is alone in
\* the roster; the update writes the dates and the owed weekends and nothing
\* else of the worker
C15_CalculatorPure ==
    [][SchedulesUpdated =>
        \A id \in DOMAIN workers :
            LET r == calculate_worker_closing_schedule(FreshWorker(workers[id]), semester_weeks',
                         allow_single_relief_min1, relief_max_per_semester)
                alone == update_all_worker_schedules([i \in {id} |-> workers[id]], semester_weeks',
                             allow_single_relief_min1, relief_max_per_semester)
            IN  /\ calc_results'[id].required_dates = r.required_dates
                /\ calc_results'[id].optimal_dates = r.optimal_dates
                /\ workers'[id] = alone[id]
                /\ workers'[id] =
                       [workers[id] EXCEPT !.required_closing_dates = r.required_dates,
                                           !.optimal_closing_dates = r.optimal_dates,
                                           !.weekends_home_owed = workers[id].weekends_home_owed,
                                           !.home_weeks_owed = workers[id].weekends_home_owed]]_vars

\* C15 witness: a finished run in which a worker closed, scored and took
\* tasks, and a worker's stored optimal dates were rescheduled before the final
\* recalculation
C15_Witness ==
    /\ pc = "done"
    /\ \E id \in DOMAIN workers :
          /\ \E d \in Range(workers[id].closing_history) : d >= start_date
          /\ workers[id].score > 0
          /\ total_y(workers[id]) > 0
    /\ \E e \in Range(logs) : e.kind = "Rescheduled"
    /\ \E a, b \in DOMAIN workers :
          /\ a # b
          /\ workers[a].closing_interval = workers[b].closing_interval
          /\ DOMAIN workers[a].x_tasks = DOMAIN workers[b].x_tasks
          /\ workers[a].closing_history # workers[b].closing_history
          /\ workers[a].optimal_closing_dates = workers[b].optimal_closing_dates

AllTiers == {"RITUK"} \cup LaterTiers

\* the walk is about to process a weekend
WeekendStep == pc = "walk" /\ date_cursor <= end_date /\ IsWeekendDay(date_cursor)

\* the log lines this step adds
NewLines == {logs'[k] : k \in (Len(logs) + 1)..Len(logs')}

\* the lines of this step that make a worker closer
NewClosers(tiers) == {e \in NewLines : e.kind \in tiers}

\* C17: a worker whose closing_history holds F - 7 or whose
\* required_closing_dates hold F + 7 is not made closer for Friday F by the
\* overdue, optimal-date or closest-to-due tier; a worker who closed the weekend
\* before, in this run, closes again only through the mandatory tier
C17_NoBackToBack ==
    [][WeekendStep =>
        LET th == UnitDate(date_cursor)
            F == th + 1
        IN  \A id \in DOMAIN workers :
               /\ ((F - 7) \in Range(workers[id].closing_history)
                      \/ (F + 7) \in Range(workers[id].required_closing_dates))
                  => ~\E e \in NewClosers(LaterTiers) : e.worker = id
               /\ ((\E e \in Range(logs) : e.kind \in AllTiers /\ e.date = th - 7 /\ e.worker = id)
                      \/ ((F - 7) \in DOMAIN assignments
                            /\ \E q \in Range(assignments[F - 7]) : q[2] = id))
                  => /\ ~\E e \in NewClosers(LaterTiers) : e.worker = id
                     /\ (F \in DOMAIN assignments'
                            /\ \E q \in Range(assignments'[F]) : q[2] = id)
                        => \E e \in NewClosers({"RITUK"}) : e.worker = id]_vars

\* C17 witness: at the second weekend a task is left although a worker who
\* closed the first weekend is qualified for it, and at the first weekend a
\* worker with a required close one week later was passed over although
\* qualified for a task that was left
C17_Witness ==
    \E th \in Thursdays :
        /\ WeekendDone(th) /\ WeekendDone(th + 7)
        /\ \E id \in DOMAIN workers :
              /\ \E tier \in AllTiers : ClosedIn(th, id, tier)
              /\ \E e \in Range(assignment_errors) :
                    e.date = th + 7 /\ worker_qualifies_for(e.task_type, workers[id])
        /\ \E id \in DOMAIN workers :
              /\ can_participate_in_closing(workers[id])
              /\ (th + 8) \in Range(workers[id].required_closing_dates)
              /\ \E e \in Range(assignment_errors) :
                    e.date = th /\ worker_qualifies_for(e.task_type, workers[id])

\* C18: a task goes to the optimal-date or closest-to-due tier only when no
\* eligible worker with weeks_overdue > 0 who is qualified for it is left:
\* every such worker was made closer by the mandatory or the overdue tier
C18_OverdueFirst ==
    [][WeekendStep =>
        LET F == UnitDate(date_cursor) + 1
        IN  \A e \in NewClosers({"OPTIMAL", "PROXIMITY"}) :
               \A id \in DOMAIN workers :
                  (/\ can_participate_in_closing(workers[id])
                   /\ (F - 7) \notin Range(workers[id].closing_history)
                   /\ (F + 7) \notin Range(workers[id].required_closing_dates)
                   /\ get_weeks_overdue(workers[id], F) > 0
                   /\ worker_qualifies_for(e.task, workers[id]))
                  => \E c \in NewClosers({"RITUK", "OVERDUE"}) : c.worker = id]_vars

\* C19: every line that makes a worker closer, whatever its tier, comes with
\* the Friday in the worker's closing_history, one more of the assigned task in
\* y_task_counts, and the score the assignment-score hook gives
C19_ThreeEffects ==
    [][WeekendStep =>
        LET F == UnitDate(date_cursor) + 1
        IN  \A e \in NewClosers(AllTiers) :
               /\ F \in Range(workers'[e.worker].closing_history)
               /\ workers'[e.worker].y_task_counts =
                     [workers[e.worker].y_task_counts EXCEPT ![e.task] = @ + 1]
               /\ workers'[e.worker].score =
                     update_score_after_assignment(workers[e.worker], F).score]_vars

\* the Fridays of the range after F that lie max(2, closing_interval) weeks or
\* more from every date of the worker's closing_history
LaterFridays(w, F) ==
    {d \in start_date..end_date :
        /\ weekday(d) = FRIDAY /\ d > F
        /\ \A h \in Range(w.closing_history) :
              Dist(d, h) >= 7 * Max2(2, w.closing_interval)}

WeekdayStep ==
    /\ pc = "walk" /\ date_cursor <= end_date
    /\ ~IsWeekendDay(date_cursor)
    /\ date_cursor \in DOMAIN tasks_by_date

\* the task names of the pairs of date d
AssignedTasks(asg, d) == {asg[d][k][1] : k \in 1..Len(asg[d])}

\* the worker is a candidate for weekday task t: in the pool of the day,
\* qualified, and with at most 3 Y-tasks in the week
WeekdayCandidate(id, t) ==
    /\ id \in Range(available_workers(workers, date_cursor, assignments))
    /\ QualifiedWeekday(t, workers[id])
    /\ check_multiple_y_tasks_per_week(workers[id], date_cursor - weekday(date_cursor)) <= 3

\* C21: an auto-assignable task of a weekday for which the pool of the day
\* holds a qualified worker with at most 3 Y-tasks that week ends the day
\* assigned, and no entry of assignment_errors names it on that date
C21_WeekdayCandidate ==
    [][WeekdayStep =>
        \A t \in Range(tasks_by_date[date_cursor]) :
            (Y_TASK_AUTO_ASSIGN[t] /\ \E id \in DOMAIN workers : WeekdayCandidate(id, t))
            => /\ t \in AssignedTasks(assignments', date_cursor)
               /\ ErrorsFor(assignment_errors', t, date_cursor) = {}]_vars

\* the pairs this step adds on date d
NewPairs(d) ==
    {assignments'[d][k] : k \in (Len(assignments[d]) + 1)..Len(assignments'[d])}

\* the workers weekday assignment may sort on the date of the cursor: the pool
\* of the day, within the largest weekly limit
CandidatePool ==
    {id \in Range(available_workers(workers, date_cursor, assignments)) :
        check_multiple_y_tasks_per_week(workers[id], date_cursor - weekday(date_cursor)) <= 3}

\* C22: on a Sunday, Monday, Tuesday or Wednesday a worker who holds a pair on
\* the day before is given a task only if every other worker of the candidate
\* pool holds a pair on that day or held one on the day before
C22_AvoidPreviousDay ==
    [][WeekdayStep =>
        \A p \in NewPairs(date_cursor) :
            was_recently_assigned(p[2], date_cursor, assignments)
            => \A o \in CandidatePool \ {p[2]} :
                   \/ \E q \in Range(assignments'[date_cursor]) : q[2] = o
                   \/ was_recently_assigned(o, date_cursor, assignments)]_vars

\* the entries of assignment_errors this step adds
NewErrors ==
    {assignment_errors'[k] : k \in (Len(assignment_errors) + 1)..Len(assignment_errors')}

\* the auto-assignable task names of the window that no tier of this step gave
\* to a closer
LeftTasks ==
    {t \in weekend_names(NextWindow) :
        Y_TASK_AUTO_ASSIGN[t] /\ ~\E e \in NewClosers(AllTiers) : e.task = t}

\* the workers who remain for Friday F after the tiers: cleared for closing,
\* without an X-task other than "Rituk" on F, not made closer in this step
RemainingCandidates(F) ==
    {id \in DOMAIN workers :
        /\ can_participate_in_closing(workers[id])
        /\ ~has_non_rituk_x_on_friday(workers[id], F)
        /\ ~\E e \in NewClosers(AllTiers) : e.worker = id}

\* only closers of the Friday before F remain
OnlyLastWeekClosersRemain(F) ==
    /\ RemainingCandidates(F) # {}
    /\ \A id \in RemainingCandidates(F) : (F - 7) \in Range(workers[id].closing_history)

\* C23: every weekend task left after the tiers gets exactly one entry of
\* assignment_errors, dated on the Thursday; the entries of the step have
\* severity "error" if the only workers who remain closed the Friday before,
\* and "warning" otherwise
C23_WeekendSeverity ==
    [][(WeekendStep /\ weekend_names(NextWindow) # {}) =>
        LET th == UnitDate(date_cursor)
        IN  /\ \A t \in LeftTasks :
                  Cardinality({k \in (Len(assignment_errors) + 1)..Len(assignment_errors') :
                      assignment_errors'[k].task_type = t /\ assignment_errors'[k].date = th}) = 1
            /\ \A e \in NewErrors :
                  /\ e.task_type \in LeftTasks /\ e.date = th
                  /\ e.severity = IF OnlyLastWeekClosersRemain(th + 1) THEN "error" ELSE "warning"]_vars

\* the dates of the window of Thursday th that the assignment grid holds
WindowDates(th) == {th, th + 1, th + 2} \cap DOMAIN assignments

\* the log lines that make a worker closer of the weekend of Thursday th
CloserLines(th) == {e \in Range(logs) : e.kind \in AllTiers /\ e.date = th}

\* C24: after a weekend has been processed, every closer of it holds exactly
\* one task name and every task name has at most one closer, the closers are
\* no more than the task names required across the window, and every date of
\* the window that the calendar holds carries exactly the pairs (task, closer)
C24_OneTaskPerCloser ==
    \A th \in Thursdays : WeekendDone(th) =>
        /\ \A e, f \in CloserLines(th) :
              (e.worker = f.worker \/ e.task = f.task) => e = f
        /\ Cardinality(CloserLines(th)) <= Cardinality(WindowTasks(th))
        /\ \A d \in WindowDates(th) :
              /\ Len(assignments[d]) = Cardinality(CloserLines(th))
              /\ Range(assignments[d]) = {<<e.task, e.worker>> : e \in CloserLines(th)}

\* C24 witness: a weekend with two closers, each with a task of its own,
\* recorded on Thursday, Friday and Saturday
C24_Witness ==
    \E th \in Thursdays :
        /\ WeekendDone(th)
        /\ Cardinality(CloserLines(th)) = 2
        /\ WindowDates(th) = {th, th + 1, th + 2}
        /\ Cardinality(WindowTasks(th)) > 2

(***************************************************************************)
(* Further properties of the calculator                                    *)
(***************************************************************************)
\* the weeks the relief pass added, as the calculation log reports them
ReliefWeeks(id) == {ReliefEvents(id)[k].week : k \in 1..Len(ReliefEvents(id))}

\* the optimal weeks of the result that are not relief picks
NonReliefWeeks(id) == Range(OptWeeks(id)) \ ReliefWeeks(id)

\* the optimal weeks of the result strictly between weeks a and b
OptBetween(id, a, b) == {w \in Range(OptWeeks(id)) : a < w /\ w < b}

\* C25: with n = max(2, closing_interval), every optimal week that is not a
\* relief pick lies n weeks or more from every required week and from every
\* other such optimal week; between neighbouring required weeks a < b with
\* b - a < 2n there is no optimal week, except the relief pick a + n when
\* b - a = 2n - 1 and n > 2
C25_MinGapOptimal ==
    CalcDone =>
        \A id \in DOMAIN calc_results :
            LET n == Max2(2, workers[id].closing_interval)
                R == Range(ReqWeeks(id))
            IN  /\ \A w \in NonReliefWeeks(id) :
                      /\ \A r \in R : Dist(w, r) >= n
                      /\ \A v \in NonReliefWeeks(id) \ {w} : Dist(w, v) >= n
                /\ \A p \in AdjacentPairs(R) :
                      p[2] - p[1] < 2 * n =>
                          IF p[2] - p[1] = 2 * n - 1 /\ n > 2
                          THEN OptBetween(id, p[1], p[2]) \subseteq {p[1] + n}
                          ELSE OptBetween(id, p[1], p[2]) = {}

\* C25 witness: two required weeks 2n - 1 apart with the relief pick between
\* them, and optimal weeks that are not relief picks
C25_Witness ==
    /\ CalcDone
    /\ \E p \in AdjacentPairs(Range(ReqWeeks(1))) :
          LET n == Max2(2, workers[1].closing_interval)
          IN  /\ n > 2 /\ p[2] - p[1] = 2 * n - 1
              /\ OptBetween(1, p[1], p[2]) = {p[1] + n}
    /\ NonReliefWeeks(1) # {}

\* the earlier weeks of the gaps that received a relief pick
ServedGaps(id) ==
    {a \in ReliefGaps(id) : a + Max2(2, workers[id].closing_interval) \in ReliefWeeks(id)}

RenamedXTasks(w, name) == [w EXCEPT !.x_tasks = [k \in DOMAIN w.x_tasks |-> name]]

\* C27: required_dates are exactly the Fridays of the week list under which
\* x_tasks holds an entry, in ascending order, and the required and optimal
\* dates are those of the same worker with every entry named "Rituk" and with
\* every entry named "Guard"
C27_RequiredWeeks ==
    CalcDone =>
        \A id \in DOMAIN calc_results :
            /\ calc_results[id].required_dates =
                  SortedSeq({d \in Range(semester_weeks) :
                                strftime(d) \in DOMAIN workers[id].x_tasks})
            /\ \A name \in XTaskNames :
                  LET r == calculate_worker_closing_schedule(
                               RenamedXTasks(workers[id], name), semester_weeks,
                               allow_single_relief_min1, relief_max_per_semester)
                  IN  /\ r.required_dates = calc_results[id].required_dates
                      /\ r.optimal_dates = calc_results[id].optimal_dates

\* C27 witness: a worker whose X-tasks are named "Guard", with a required date
\* in the middle of the semester, no optimal date within the interval around
\* it, and Fridays that are not required
C27_Witness ==
    /\ CalcDone
    /\ workers[1].closing_interval >= 3
    /\ \E k \in DOMAIN workers[1].x_tasks : workers[1].x_tasks[k] = "Guard"
    /\ \E r \in Range(ReqWeeks(1)) :
          /\ 1 < r /\ r < Len(semester_weeks)
          /\ (r - 1) \notin Range(CombinedWeeks(1))
          /\ (r + 1) \notin Range(CombinedWeeks(1))
    /\ Len(ReqWeeks(1)) < Len(semester_weeks)
    /\ OptWeeks(1) # <<>>

(***************************************************************************)
(* Further properties of the engine                                        *)
(***************************************************************************)
\* C28: when the run has returned, the required and optimal closing dates of
\* every worker are the calculator's result over the Fridays of
\* [start_date, end_date] for a worker with the same closing_interval and
\* X-tasks and nothing else: no date removed or added by the rescheduling of the
\* walk and no closing recorded during the walk shows in them
C28_FinalRecalculation ==
    pc = "done" =>
        \A id \in DOMAIN workers :
            LET r == calculate_worker_closing_schedule(
                         FreshWorker(workers[id]), all_fridays_in_range(start_date, end_date),
                         allow_single_relief_min1, relief_max_per_semester)
            IN  /\ workers[id].required_closing_dates = r.required_dates
                /\ workers[id].optimal_closing_dates = r.optimal_dates

\* C28 witness: a finished run in which a worker was passed over on an optimal
\* Friday and rescheduled to a later one, another worker closed that weekend,
\* and the Friday is among the passed-over worker's optimal dates again
C28_Witness ==
    /\ pc = "done"
    /\ \E th \in Thursdays, id \in DOMAIN workers :
          /\ WeekendDone(th)
          /\ ~\E tier \in AllTiers : ClosedIn(th, id, tier)
          /\ \E o \in DOMAIN workers, tier \in AllTiers : ClosedIn(th, o, tier)
          /\ \E e \in Range(logs) : e.kind = "Rescheduled" /\ e.worker = id /\ e.date > th + 1
          /\ (th + 1) \in Range(workers[id].optimal_closing_dates)

\* the dates this step adds to the worker's closing_history
NewClosings(id) ==
    Range(workers'[id].closing_history) \ Range(workers[id].closing_history)

\* C30: every date a step of the run adds to a worker's closing_history lies
\* within [start_date, end_date]
C30_ClosingInRange ==
    [][\A id \in DOMAIN workers :
          \A d \in NewClosings(id) : start_date <= d /\ d <= end_date]_vars

\* the walk is about to process a unit
WalkStep == pc = "walk" /\ date_cursor <= end_date

\* the positions of the log lines that open the weekend of Thursday th
WeekendLines(th) == {k \in 1..Len(logs) : logs[k].kind = "Weekend" /\ logs[k].date = th}

\* C29: the walk starts at start_date; every step handles the unit of the
\* cursor, as a weekend if the cursor is on a Thursday, Friday or Saturday and
\* as a weekday otherwise, touches the pairs of that unit only, and moves the
\* cursor forward to the first date after the unit; the run returns only with
\* the cursor beyond end_date, with each window that meets the range opened
\* exactly once and the windows in ascending order; and every run returns
C29_DateWalk ==
    /\ [](pc = "init" => date_cursor = start_date)
    /\ [][pc = "init" => date_cursor' = start_date]_vars
    /\ [][WalkStep =>
            /\ date_cursor' > date_cursor
            /\ \A d \in date_cursor..(date_cursor' - 1) : UnitDate(d) = UnitDate(date_cursor)
            /\ UnitDate(date_cursor') # UnitDate(date_cursor)
            /\ \A d \in DOMAIN assignments :
                  assignments'[d] # assignments[d] => UnitDate(d) = UnitDate(date_cursor)
            /\ IF IsWeekendDay(date_cursor)
               THEN {e \in NewLines : e.kind = "Weekend"}
                        = {LogLine("Weekend", UnitDate(date_cursor), "", 0)}
               ELSE /\ \A e \in NewLines : e.date = date_cursor /\ e.kind # "Weekend"
                    /\ date_cursor' = date_cursor + 1]_vars
    /\ [](pc = "done" =>
            /\ date_cursor > end_date
            /\ \A th \in Thursdays : Cardinality(WeekendLines(th)) = 1
            /\ \A i, j \in 1..Len(logs) :
                  (i < j /\ logs[i].kind = "Weekend" /\ logs[j].kind = "Weekend")
                      => logs[i].date < logs[j].date
            /\ \A i, j \in 1..Len(logs) :
                  (i < j /\ logs[i].kind \in {"Weekend", "Weekday"}
                         /\ logs[j].kind \in {"Weekend", "Weekday"})
                      => logs[i].date <= logs[j].date)
    /\ <>(pc = "done")

\* C29 witness: a finished run that started on a Friday or Saturday, passed
\* two windows, and assigned weekday tasks between them
C29_Witness ==
    /\ pc = "done"
    /\ weekday(start_date) \in {4, 5}
    /\ Cardinality({k \in 1..Len(logs) : logs[k].kind = "Weekend"}) = 2
    /\ \E d \in DOMAIN assignments : ~IsWeekendDay(d) /\ assignments[d] # <<>>
    /\ \E d \in DOMAIN assignments : IsWeekendDay(d) /\ d > start_date + 2 /\ assignments[d] # <<>>

====
